---- MODULE Spec2Model ----
(***************************************************************************)
(* A model of the zowe-client-go-sdk: profiles and sessions (pkg/profile), *)
(* the job manager (pkg/jobs) and the dataset manager (pkg/datasets).      *)
(*                                                                         *)
(* Texts that the code only concatenates (URLs, header values) are TLA+    *)
(* strings; texts that the code inspects character by character (job       *)
(* statuses, identifiers that are path-escaped) are sequences of           *)
(* one-character strings.                                                  *)
(***************************************************************************)
EXTENDS Integers, Sequences, FiniteSets, TLC

VARIABLES
    profile,      \* the ZOSMFProfile a session is derived from
    session,      \* the Session (or NoSession before NewSession)
    last,         \* the last manager operation: its arguments, requests, result
    calls,        \* number of requests handed to the HTTP transport so far
    pc,           \* WaitForJobCompletion: position in the polling loop
    now,          \* WaitForJobCompletion: the monotonic clock
    wait,         \* WaitForJobCompletion: its locals and its history
    server,       \* the content the z/OSMF server holds, by request path
    config,       \* the Zowe configuration file at the manager's configPath
    idle          \* idle connections the transport of the session's client keeps

vars == <<profile, session, last, calls, pc, now, wait, server, config, idle>>

-----------------------------------------------------------------------------
(* Bounds of the model *)

\* requests the transport accepts before the model stops issuing operations
MaxCalls == 2
\* largest clock value of the polling model
MaxTime == 6
\* largest timeout and poll interval passed to WaitForJobCompletion
MaxTimeout == 2
\* the longest poll interval of a wait, in ticks
MaxPollInterval == 1
\* the most status polls one wait makes in the model
MaxPolls == 3
\* ValidateDatasetName, ValidateMemberName: length of the names tried in full
MaxNameLen == 3
\* most spool files a job of the output model has
MaxSpoolFiles == 2

-----------------------------------------------------------------------------
(* Text helpers *)

Digits == <<"0", "1", "2", "3", "4", "5", "6", "7", "8", "9">>

RECURSIVE NatToStr(_)
NatToStr(n) ==
    IF n < 10 THEN Digits[n + 1]
    ELSE NatToStr(n \div 10) \o Digits[(n % 10) + 1]

\* fmt.Sprintf("%d", n) and strconv.Itoa(n)
Itoa(n) == IF n < 0 THEN "-" \o NatToStr(-n) ELSE NatToStr(n)

\* a sequence of one-character strings as one string
RECURSIVE Str(_)
Str(s) == IF s = <<>> THEN "" ELSE Head(s) \o Str(Tail(s))

-----------------------------------------------------------------------------
(* pkg/profile: ZOSMFProfile and Session *)

NoSession == [made |-> FALSE]

DefaultHeaders ==
    [k \in {"Content-Type", "Accept"} |-> "application/json"]

\* the http.Client NewSession builds: TLS verification and the 30 s timeout
NewClient(p) ==
    [InsecureSkipVerify |-> ~p.RejectUnauthorized, TimeoutSeconds |-> 30]

\* A faulty NewSession: the port-8080 branch of the protocol choice is lost.
BaseURLNo8080(p) ==
    LET protocol0 == IF p.Protocol = "" THEN "https" ELSE p.Protocol
        protocol  == IF p.Port = 80 THEN "http" ELSE protocol0
        url0 == protocol \o "://" \o p.Host
        url1 == IF p.Port # 0 /\ p.Port # 80 /\ p.Port # 443
                THEN url0 \o ":" \o Itoa(p.Port) ELSE url0
    IN  IF p.BasePath # "" THEN url1 \o p.BasePath ELSE url1

\* NewSession, "Build base URL"
BuildBaseURL(p) ==
    LET protocol0 == IF p.Protocol = "" THEN "https" ELSE p.Protocol
        protocol  == IF p.Port = 80 THEN "http"
                     ELSE IF p.Port = 8080 THEN "http" ELSE protocol0
        url0 == protocol \o "://" \o p.Host
        url1 == IF p.Port # 0 /\ p.Port # 80 /\ p.Port # 443
                THEN url0 \o ":" \o Itoa(p.Port) ELSE url0
    IN  IF p.BasePath # "" THEN url1 \o p.BasePath ELSE url1

NewSession(p) ==
    [made       |-> TRUE,
     Profile    |-> p,
     Host       |-> p.Host,
     Port       |-> p.Port,
     User       |-> p.User,
     Password   |-> p.Password,
     BaseURL    |-> BuildBaseURL(p),
     HTTPClient |-> NewClient(p),
     Headers    |-> DefaultHeaders]

\* A faulty AddHeader: sets the header on a session with a new default client
AddHeaderNewClient(s, key, value) ==
    [s EXCEPT !.Headers = [k \in (DOMAIN s.Headers) \cup {key} |->
                              IF k = key THEN value ELSE s.Headers[k]],
              !.HTTPClient = [InsecureSkipVerify |-> FALSE,
                              TimeoutSeconds |-> 30]]

\* Session.AddHeader: s.Headers[key] = value
AddHeader(s, key, value) ==
    [s EXCEPT !.Headers =
        [k \in (DOMAIN s.Headers) \cup {key} |->
            IF k = key THEN value ELSE s.Headers[k]]]

\* Session.RemoveHeader: delete(s.Headers, key)
RemoveHeader(s, key) ==
    [s EXCEPT !.Headers = [k \in (DOMAIN s.Headers) \ {key} |-> s.Headers[k]]]

\* The profiles the session model draws from.
Protocols == {"", "http", "https"}
Hosts     == {"localhost", "zos.example.com"}
Ports     == {-1, 0, 80, 443, 8080, 8443, 10443}
BasePaths == {"", "/api/v1", "zosmf/"}

SessionProfiles ==
    [Name : {"p"}, Host : Hosts, Port : Ports, User : {<<"I", "B", "M">>},
     Password : {"pass"}, Protocol : Protocols,
     RejectUnauthorized : BOOLEAN, BasePath : BasePaths]

HeaderKeys   == {"Content-Type", "Accept", "X-Custom-Header"}
HeaderValues == {"application/json", "custom-value"}

-----------------------------------------------------------------------------
(* net/url escaping, as called by the managers *)

Unreserved ==
    {"A", "B", "C", "D", "E", "F", "G", "H", "I", "J", "K", "L", "M", "N",
     "O", "P", "Q", "R", "S", "T", "U", "V", "W", "X", "Y", "Z",
     "a", "b", "c", "d", "e", "f", "g", "h", "i", "j", "k", "l", "m", "n",
     "o", "p", "q", "r", "s", "t", "u", "v", "w", "x", "y", "z",
     "0", "1", "2", "3", "4", "5", "6", "7", "8", "9", "-", "_", ".", "~"}

\* the %XX form of the other characters the model uses
PercentCode(c) ==
    CASE c = " " -> "%20"
      [] c = "#" -> "%23"
      [] c = "$" -> "%24"
      [] c = "(" -> "%28"
      [] c = ")" -> "%29"
      [] c = "*" -> "%2A"
      [] c = "/" -> "%2F"
      [] c = "@" -> "%40"

\* url.PathEscape: a path segment keeps $ & + = : @ and escapes the rest
RECURSIVE PathEscape(_)
PathEscape(s) ==
    IF s = <<>> THEN ""
    ELSE (IF Head(s) \in Unreserved \cup {"$", "&", "+", "=", ":", "@"}
          THEN Head(s) ELSE PercentCode(Head(s))) \o PathEscape(Tail(s))

\* url.QueryEscape: a space becomes +, every reserved character is escaped
RECURSIVE QueryEscape(_)
QueryEscape(s) ==
    IF s = <<>> THEN ""
    ELSE (IF Head(s) \in Unreserved THEN Head(s)
          ELSE IF Head(s) = " " THEN "+" ELSE PercentCode(Head(s)))
         \o QueryEscape(Tail(s))

-----------------------------------------------------------------------------
(* HTTP responses and their bodies *)

\* A body is the text of the response in abstract syntax: its top-level JSON
\* shape (or "text" when it is no JSON document), the keys of a top-level
\* object with the values the managers read (items: the elements of a
\* top-level array or of the object's list-valued key), whether a newline
\* follows the document, and whether it is a proper prefix cut off by a
\* failed read.
BlankBody ==
    [shape |-> "text", text |-> "", keys |-> {}, items |-> <<>>,
     jobid |-> <<>>, status |-> <<>>, name |-> <<>>,
     nl |-> FALSE, cut |-> FALSE]

TextBody(t)  == [BlankBody EXCEPT !.text = t]
ObjectBody(keys, nl) ==
    [BlankBody EXCEPT !.shape = "object", !.keys = keys, !.nl = nl]
ArrayBody(items) == [BlankBody EXCEPT !.shape = "array", !.items = items]
\* an object whose key holds a list: {"jobs": [...]}, {"datasets": [...]}
ListBody(key, items) ==
    [BlankBody EXCEPT !.shape = "object", !.keys = {key}, !.items = items,
                      !.nl = TRUE]

\* io.ReadAll(resp.Body): the whole body, or what arrived before the read
\* failed together with the error
ReadAll(resp) ==
    IF resp.readOK THEN [data |-> resp.body, err |-> FALSE]
    ELSE [data |-> [resp.body EXCEPT !.cut = TRUE], err |-> TRUE]

\* json.Unmarshal / Decoder.Decode into a struct: the document must be a
\* complete JSON object
DecodesAsObject(data) == data.shape = "object" /\ ~data.cut
\* json.Unmarshal / Decoder.Decode into a slice: a complete JSON array
DecodesAsArray(data) == data.shape = "array" /\ ~data.cut

-----------------------------------------------------------------------------
(* Errors and results *)

\* An error is its message format, the status and body formatted into it (if
\* any), and the messages of the errors wrapping it with %w, outermost first.
PlainError(msg) ==
    [msg |-> msg, hasStatus |-> FALSE, status |-> 0,
     hasBody |-> FALSE, body |-> BlankBody, wraps |-> <<>>]

Wrap(msg, e) == [e EXCEPT !.wraps = <<msg>> \o @]

NoError == PlainError("")

Ok(v)   == [ok |-> TRUE, err |-> NoError, value |-> v]
Fail(e) == [ok |-> FALSE, err |-> e, value |-> "none"]

\* what http.Client.Do returns when the connection fails
TransportError == PlainError("transport error")

\* fmt.Errorf("failed to make request: %w", err)
FailedToMakeRequest == Wrap("failed to make request", TransportError)

\* body, _ := io.ReadAll(resp.Body)
\* fmt.Errorf("API request failed with status %d: %s", resp.StatusCode, string(body))
ApiRequestFailed(resp) ==
    [PlainError("API request failed with status %d: %s") EXCEPT
        !.hasStatus = TRUE, !.status = resp.status,
        !.hasBody = TRUE, !.body = ReadAll(resp).data]

\* for key, value := range session.GetHeaders() { req.Header.Set(key, value) }
\* on a session whose keys are canonical and so do not depend on the order
SessionHeaders(s) == s.Headers

NewRequest(method, url, headers, body) ==
    [method |-> method, url |-> url, headers |-> headers, body |-> body]

Out(reqs, result) == [reqs |-> reqs, result |-> result]

-----------------------------------------------------------------------------
(* pkg/jobs: the job manager *)

JobsEndpoint == "/restjobs/jobs"
\* fmt.Sprintf(JobByCorrelatorEndpoint, url.PathEscape(id))
JobByCorrelator(id) == "/restjobs/jobs/" \o PathEscape(id)
\* fmt.Sprintf(JobByNameIDEndpoint, url.PathEscape(name), url.PathEscape(id))
JobByNameID(name, id) ==
    "/restjobs/jobs/" \o PathEscape(name) \o "/" \o PathEscape(id)

NoBody == [kind |-> "none"]
JSONBody(fields) == [kind |-> "json", fields |-> fields]

\* the pairs of url.Values.Encode: sorted by key, values query-escaped
RECURSIVE EncodePairs(_)
EncodePairs(pairs) ==
    IF pairs = <<>> THEN ""
    ELSE pairs[1][1] \o "=" \o QueryEscape(pairs[1][2])
         \o (IF Len(pairs) > 1 THEN "&" ELSE "") \o EncodePairs(Tail(pairs))

RECURSIVE SeqOfDigits(_)
SeqOfDigits(n) ==
    IF n < 10 THEN <<Digits[n + 1]>>
    ELSE SeqOfDigits(n \div 10) \o <<Digits[(n % 10) + 1]>>

\* ListJobs, "Build query parameters": only the fields that are set
ListJobsParams(filter) ==
    IF filter.isNil THEN <<>>
    ELSE (IF filter.JobID # <<>> THEN <<(<<"jobid", filter.JobID>>)>> ELSE <<>>)
      \o (IF filter.JobName # <<>> THEN <<(<<"jobname", filter.JobName>>)>> ELSE <<>>)
      \o (IF filter.MaxJobs > 0
          THEN <<(<<"max-jobs", SeqOfDigits(filter.MaxJobs)>>)>> ELSE <<>>)
      \o (IF filter.Owner # <<>> THEN <<(<<"owner", filter.Owner>>)>> ELSE <<>>)
      \o (IF filter.Prefix # <<>> THEN <<(<<"prefix", filter.Prefix>>)>> ELSE <<>>)
      \o (IF filter.Status # <<>> THEN <<(<<"status", filter.Status>>)>> ELSE <<>>)
      \o (IF filter.UserCorrelator # <<>>
          THEN <<(<<"user-correlator", filter.UserCorrelator>>)>> ELSE <<>>)

\* apiURL += "?" + params.Encode(), when there are parameters
WithQuery(url, pairs) ==
    IF Len(pairs) > 0 THEN url \o "?" \o EncodePairs(pairs) ELSE url

\* json.Unmarshal(bodyBytes, &jobList): the Jobs of the decoded JobList
JobListJobs(data) == IF "jobs" \in data.keys THEN data.items ELSE <<>>

\* string(bodyBytes) == "{}"
IsEmptyObjectText(data) ==
    data.shape = "object" /\ data.keys = {} /\ ~data.nl /\ ~data.cut

\* ListJobs, "Parse response with fallback for array responses"
DecodeJobList(data) ==
    IF DecodesAsObject(data)
       /\ (Len(JobListJobs(data)) > 0 \/ IsEmptyObjectText(data))
    THEN Ok([Jobs |-> JobListJobs(data)])
    ELSE IF DecodesAsArray(data)
    THEN Ok([Jobs |-> data.items])
    ELSE Fail([PlainError("failed to decode response: %s") EXCEPT
                  !.hasBody = TRUE, !.body = data])

ListJobs(s, filter, resp) ==
    LET apiURL == WithQuery(s.BaseURL \o JobsEndpoint, ListJobsParams(filter))
        req == NewRequest("GET", apiURL, SessionHeaders(s), NoBody)
        read == ReadAll(resp)
    IN  IF resp.err THEN Out(<<req>>, Fail(FailedToMakeRequest))
        ELSE IF resp.status # 200
        THEN Out(<<req>>, Fail(ApiRequestFailed(resp)))
        ELSE IF read.err
        THEN Out(<<req>>, Fail(Wrap("failed to read response",
                                    PlainError("read error"))))
        ELSE Out(<<req>>, DecodeJobList(read.data))

\* json.NewDecoder(resp.Body).Decode(&v) for a struct v
DecodeObject(resp) ==
    IF resp.readOK /\ DecodesAsObject(resp.body)
    THEN Ok(resp.body)
    ELSE Fail(Wrap("failed to decode response", PlainError("decode error")))

\* json.NewDecoder(resp.Body).Decode(&v) for a slice v
DecodeArray(resp) ==
    IF resp.readOK /\ DecodesAsArray(resp.body)
    THEN Ok(resp.body.items)
    ELSE Fail(Wrap("failed to decode response", PlainError("decode error")))

\* the Job a decoded object yields
JobOf(data) == [JobID |-> data.jobid, Status |-> data.status]

\* A faulty status check: every 2xx status is taken as success.
GetJobStatusOKAny2xx(status) == status \in 200..299

\* GetJob, GetJobByNameID, GetJobByCorrelator, GetJobInfo, GetSpoolFiles,
\* GetSpoolFileContent: resp.StatusCode != http.StatusOK is the failure
GetJobStatusOK(status) == status = 200

\* the shared body of GetJob, GetJobByNameID and GetJobByCorrelator
FetchJob(s, path, resp) ==
    LET req == NewRequest("GET", s.BaseURL \o path, SessionHeaders(s), NoBody)
        dec == DecodeObject(resp)
    IN  IF resp.err THEN Out(<<req>>, Fail(FailedToMakeRequest))
        ELSE IF ~GetJobStatusOK(resp.status)
        THEN Out(<<req>>, Fail(ApiRequestFailed(resp)))
        ELSE IF ~dec.ok THEN Out(<<req>>, dec)
        ELSE Out(<<req>>, Ok(JobOf(dec.value)))

GetJob(s, jobID, resp) == FetchJob(s, JobByCorrelator(jobID), resp)

GetJobByNameID(s, jobName, jobID, resp) ==
    FetchJob(s, JobByNameID(jobName, jobID), resp)

GetJobByCorrelator(s, correlator, resp) ==
    FetchJob(s, JobByCorrelator(correlator), resp)

\* GetJobStatus: the Status of GetJob's job, or GetJob's error unchanged
GetJobStatus(s, jobID, resp) ==
    LET got == GetJob(s, jobID, resp)
    IN  IF ~got.result.ok THEN got
        ELSE Out(got.reqs, Ok(got.result.value.Status))

GetJobInfo(s, jobID, resp) ==
    LET req == NewRequest("GET", s.BaseURL \o JobByCorrelator(jobID) \o "/files",
                          SessionHeaders(s), NoBody)
    IN  IF resp.err THEN Out(<<req>>, Fail(FailedToMakeRequest))
        ELSE IF resp.status # 200
        THEN Out(<<req>>, Fail(ApiRequestFailed(resp)))
        ELSE Out(<<req>>, DecodeObject(resp))

GetSpoolFiles(s, jobID, resp) ==
    LET req == NewRequest("GET", s.BaseURL \o JobByCorrelator(jobID) \o "/files",
                          SessionHeaders(s), NoBody)
    IN  IF resp.err THEN Out(<<req>>, Fail(FailedToMakeRequest))
        ELSE IF resp.status # 200
        THEN Out(<<req>>, Fail(ApiRequestFailed(resp)))
        ELSE Out(<<req>>, DecodeArray(resp))

GetSpoolFileContent(s, jobID, spoolID, resp) ==
    LET req == NewRequest("GET",
                   s.BaseURL \o JobByCorrelator(jobID) \o "/files/"
                     \o Itoa(spoolID) \o "/records",
                   SessionHeaders(s), NoBody)
        read == ReadAll(resp)
    IN  IF resp.err THEN Out(<<req>>, Fail(FailedToMakeRequest))
        ELSE IF resp.status # 200
        THEN Out(<<req>>, Fail(ApiRequestFailed(resp)))
        ELSE IF read.err
        THEN Out(<<req>>, Fail(Wrap("failed to read response body",
                                    PlainError("read error"))))
        ELSE Out(<<req>>, Ok(read.data))

\* GetJobOutput, "Get content for each spool file": the requests sent and
\* the output map so far; a file whose content fails is passed over
RECURSIVE CollectOutput(_, _, _, _, _)
CollectOutput(s, correlator, spoolFiles, resps, sofar) ==
    IF spoolFiles = <<>> THEN sofar
    ELSE LET spoolFile == Head(spoolFiles)
             got == GetSpoolFileContent(s, correlator, spoolFile.ID, Head(resps))
             output == IF got.result.ok
                       THEN (spoolFile.DDName :> got.result.value) @@ sofar.output
                       ELSE sofar.output
         IN  CollectOutput(s, correlator, Tail(spoolFiles), Tail(resps),
                           [reqs |-> sofar.reqs \o got.reqs, output |-> output])

\* ZOSMFJobManager.GetJobOutput
GetJobOutput(s, correlator, resps) ==
    LET files == GetSpoolFiles(s, correlator, Head(resps))
    IN  IF ~files.result.ok
        THEN Out(files.reqs,
                 Fail(Wrap("failed to get spool files", files.result.err)))
        ELSE LET all == CollectOutput(s, correlator, files.result.value,
                                      Tail(resps),
                                      [reqs |-> files.reqs, output |-> <<>>])
             IN  Out(all.reqs, Ok(all.output))

\* A faulty SubmitJob body: without a source the local-file branch is taken
\* and the request is sent.
SubmitJobBodyNoCheck(request) ==
    IF request.JobStatement # ""
    THEN [chosen |-> TRUE,
          fields |-> [k \in {"jobStatement"} |-> request.JobStatement]]
    ELSE IF request.JobDataSet # ""
    THEN [chosen |-> TRUE,
          fields |-> [k \in {"jobDataSet"}
                        \cup (IF request.Volume # "" THEN {"volume"} ELSE {})
                      |-> IF k = "jobDataSet" THEN request.JobDataSet
                          ELSE request.Volume]]
    ELSE [chosen |-> TRUE,
          fields |-> [k \in {"jobLocalFile"}
                        \cup (IF request.Directory # "" THEN {"directory"} ELSE {})
                        \cup (IF request.Extension # "" THEN {"extension"} ELSE {})
                      |-> IF k = "jobLocalFile" THEN request.JobLocalFile
                          ELSE IF k = "directory" THEN request.Directory
                          ELSE request.Extension]]

\* SubmitJob, "Prepare request body": the first source that is set, in the
\* order jobStatement, jobDataSet, jobLocalFile, with its own optional fields
SubmitJobBody(request) ==
    IF request.JobStatement # ""
    THEN [chosen |-> TRUE,
          fields |-> [k \in {"jobStatement"} |-> request.JobStatement]]
    ELSE IF request.JobDataSet # ""
    THEN [chosen |-> TRUE,
          fields |-> [k \in {"jobDataSet"}
                        \cup (IF request.Volume # "" THEN {"volume"} ELSE {})
                      |-> IF k = "jobDataSet" THEN request.JobDataSet
                          ELSE request.Volume]]
    ELSE IF request.JobLocalFile # ""
    THEN [chosen |-> TRUE,
          fields |-> [k \in {"jobLocalFile"}
                        \cup (IF request.Directory # "" THEN {"directory"} ELSE {})
                        \cup (IF request.Extension # "" THEN {"extension"} ELSE {})
                      |-> IF k = "jobLocalFile" THEN request.JobLocalFile
                          ELSE IF k = "directory" THEN request.Directory
                          ELSE request.Extension]]
    ELSE [chosen |-> FALSE, fields |-> [k \in {} |-> ""]]

\* SubmitJob, "Check response status": Created, OK and Accepted succeed
SubmitStatusOK(status) == status = 201 \/ status = 200 \/ status = 202

\* the SubmitJobResponse a decoded object yields
SubmitJobResponseOf(data) == [JobID |-> data.jobid]

SubmitJob(s, request, resp) ==
    LET apiURL == s.BaseURL \o JobsEndpoint
        body == SubmitJobBody(request)
        req == NewRequest("PUT", apiURL, SessionHeaders(s), JSONBody(body.fields))
        dec == DecodeObject(resp)
    IN  IF ~body.chosen
        THEN Out(<<>>, Fail(PlainError(
                 "no job source specified (jobStatement, jobDataSet, or jobLocalFile)")))
        ELSE IF resp.err THEN Out(<<req>>, Fail(FailedToMakeRequest))
        ELSE IF ~SubmitStatusOK(resp.status)
        THEN Out(<<req>>, Fail(ApiRequestFailed(resp)))
        ELSE IF ~dec.ok THEN Out(<<req>>, dec)
        ELSE Out(<<req>>, Ok(SubmitJobResponseOf(dec.value)))

\* CancelJob, DeleteJob, PurgeJob: OK and NoContent succeed
NoContentStatusOK(status) == status = 200 \/ status = 204

\* the shared body of CancelJob, DeleteJob and PurgeJob
JobCommand(s, method, path, resp) ==
    LET req == NewRequest(method, s.BaseURL \o path, SessionHeaders(s), NoBody)
    IN  IF resp.err THEN Out(<<req>>, Fail(FailedToMakeRequest))
        ELSE IF ~NoContentStatusOK(resp.status)
        THEN Out(<<req>>, Fail(ApiRequestFailed(resp)))
        ELSE Out(<<req>>, Ok("done"))

CancelJob(s, jobID, resp) ==
    JobCommand(s, "PUT", JobByCorrelator(jobID) \o "/cancel", resp)

DeleteJob(s, jobID, resp) ==
    JobCommand(s, "DELETE", JobByCorrelator(jobID), resp)

PurgeJob(s, jobID, resp) ==
    JobCommand(s, "PUT", JobByCorrelator(jobID) \o "/purge", resp)

-----------------------------------------------------------------------------
(* pkg/datasets: the dataset manager *)

DatasetsEndpoint == "/restfiles/ds"
\* fmt.Sprintf(DatasetByNameEndpoint, url.PathEscape(name))
DatasetByName(name) == "/restfiles/ds/" \o PathEscape(name)

\* textproto.CanonicalMIMEHeaderKey, which http.Header.Set applies to the key
CanonicalMIMEHeaderKey(k) ==
    CASE k = "X-IBM-Max-Items"  -> "X-Ibm-Max-Items"
      [] k = "X-IBM-Attributes" -> "X-Ibm-Attributes"
      [] k = "content-type"     -> "Content-Type"
      [] OTHER -> k

\* req.Header.Set(key, value)
HeaderSet(h, key, value) ==
    [k \in (DOMAIN h) \cup {CanonicalMIMEHeaderKey(key)} |->
        IF k = CanonicalMIMEHeaderKey(key) THEN value ELSE h[k]]

\* for key, value := range headers { req.Header.Set(key, value) }, for
\* every order in which range may visit the keys: each canonical key ends
\* up with the value of one of the keys spelling it
RangeHeaders(h) ==
    { m \in [{CanonicalMIMEHeaderKey(k) : k \in DOMAIN h} ->
                {h[k] : k \in DOMAIN h}] :
        \A c \in DOMAIN m :
            \E k \in DOMAIN h : CanonicalMIMEHeaderKey(k) = c /\ h[k] = m[c] }

\* A faulty parameter builder: the filter's values only, no default pattern
ListDatasetsParamsNoDefault(s, filter) ==
    LET hasName   == ~filter.isNil /\ filter.Name # <<>>
        hasVolume == ~filter.isNil /\ filter.Volume # <<>>
        hasOwner  == ~filter.isNil /\ filter.Owner # <<>>
    IN  (IF hasName THEN <<(<<"dslevel", filter.Name>>)>> ELSE <<>>)
     \o (IF hasOwner THEN <<(<<"start", filter.Owner>>)>> ELSE <<>>)
     \o (IF hasVolume THEN <<(<<"volser", filter.Volume>>)>> ELSE <<>>)

\* ListDatasets, "Build query parameters": dslevel and volser from the filter,
\* and the session user's pattern when neither is given
ListDatasetsParams(s, filter) ==
    LET hasName   == ~filter.isNil /\ filter.Name # <<>>
        hasVolume == ~filter.isNil /\ filter.Volume # <<>>
        hasOwner  == ~filter.isNil /\ filter.Owner # <<>>
        dslevel   == IF hasName THEN filter.Name
                     ELSE IF ~hasVolume THEN s.User \o <<".", "*">>
                     ELSE <<>>
    IN  (IF hasName \/ ~hasVolume THEN <<(<<"dslevel", dslevel>>)>> ELSE <<>>)
     \o (IF hasOwner THEN <<(<<"start", filter.Owner>>)>> ELSE <<>>)
     \o (IF hasVolume THEN <<(<<"volser", filter.Volume>>)>> ELSE <<>>)

\* ListDatasets, the headers of its request
ListDatasetsHeaders(s, filter) ==
    HeaderSet(
        HeaderSet(SessionHeaders(s), "X-IBM-Max-Items",
                  IF ~filter.isNil /\ filter.Limit > 0
                  THEN Itoa(filter.Limit) ELSE "0"),
        "X-IBM-Attributes", "base")

\* json.Unmarshal(bodyBytes, &datasetList): the Datasets of the DatasetList
DatasetListDatasets(data) == IF "datasets" \in data.keys THEN data.items ELSE <<>>

ListDatasets(s, filter, resp) ==
    LET apiURL == WithQuery(s.BaseURL \o DatasetsEndpoint,
                            ListDatasetsParams(s, filter))
        req == NewRequest("GET", apiURL, ListDatasetsHeaders(s, filter), NoBody)
        read == ReadAll(resp)
    IN  IF resp.err THEN Out(<<req>>, Fail(FailedToMakeRequest))
        ELSE IF resp.status # 200
        THEN Out(<<req>>, Fail(ApiRequestFailed(resp)))
        ELSE IF read.err
        THEN Out(<<req>>, Fail(Wrap("failed to read response",
                                    PlainError("read error"))))
        ELSE IF ~DecodesAsObject(read.data)
        THEN Out(<<req>>, Fail(Wrap("failed to decode response",
                                    PlainError("decode error"))))
        ELSE Out(<<req>>, Ok([Datasets |-> DatasetListDatasets(read.data)]))

\* &DatasetFilter{Name: name}
NameFilter(name) ==
    [isNil |-> FALSE, Name |-> name, Volume |-> <<>>, Owner |-> <<>>, Limit |-> 0]

\* GetDataset: the first dataset of the listing whose name is the one asked for
GetDataset(s, name, resp) ==
    LET listed == ListDatasets(s, NameFilter(name), resp)
        dl == listed.result.value.Datasets
        hits == {i \in 1..Len(dl) : dl[i].Name = name}
    IN  IF ~listed.result.ok THEN listed
        ELSE IF hits # {}
        THEN Out(listed.reqs, Ok(dl[CHOOSE i \in hits : \A j \in hits : i <= j]))
        ELSE Out(listed.reqs, Fail(PlainError("dataset not found: %s")))

\* the Dataset a decoded object yields
DatasetOf(data) == [Name |-> data.name]

\* getDatasetInfoDirect: GET ds/{name}?metadata=true
getDatasetInfoDirect(s, name, resp) ==
    LET apiURL == s.BaseURL \o DatasetByName(name) \o "?metadata=true"
        req == NewRequest("GET", apiURL,
                          HeaderSet(SessionHeaders(s), "Accept", "application/json"),
                          NoBody)
        dec == DecodeObject(resp)
    IN  IF resp.err THEN Out(<<req>>, Fail(FailedToMakeRequest))
        ELSE IF resp.status = 404
        THEN Out(<<req>>, Fail(PlainError("dataset not found: %s")))
        ELSE IF resp.status # 200
        THEN Out(<<req>>, Fail(ApiRequestFailed(resp)))
        ELSE IF ~dec.ok THEN Out(<<req>>, dec)
        ELSE Out(<<req>>, Ok(DatasetOf(dec.value)))

\* a faulty GetDatasetInfo: falls back to the listing only when the direct
\* call got a response, a transport error of the direct call is returned
GetDatasetInfoTransportErrorReturned(s, name, resp1, resp2) ==
    LET direct == getDatasetInfoDirect(s, name, resp1)
        listed == GetDataset(s, name, resp2)
    IN  IF direct.result.ok \/ resp1.err THEN direct
        ELSE Out(direct.reqs \o listed.reqs, listed.result)

\* GetDatasetInfo: the direct call, and GetDataset when the direct call fails
GetDatasetInfo(s, name, resp1, resp2) ==
    LET direct == getDatasetInfoDirect(s, name, resp1)
        listed == GetDataset(s, name, resp2)
    IN  IF direct.result.ok THEN direct
        ELSE Out(direct.reqs \o listed.reqs, listed.result)

\* DeleteDataset: DELETE ds/{name}; OK and NoContent succeed
DeleteDataset(s, name, resp) ==
    LET req == NewRequest("DELETE", s.BaseURL \o DatasetByName(name),
                          SessionHeaders(s), NoBody)
    IN  IF resp.err THEN Out(<<req>>, Fail(FailedToMakeRequest))
        ELSE IF resp.status # 200 /\ resp.status # 204
        THEN Out(<<req>>, Fail(ApiRequestFailed(resp)))
        ELSE Out(<<req>>, Ok("done"))

\* bytes.NewBufferString(request.Content): the content itself is the body
PlainTextBody(text) == [kind |-> "text", text |-> text]

\* UploadContent / DownloadContent, "Build URL": ds/{name}({member}) when a
\* member is named, ds/{name} otherwise
ContentPath(datasetName, memberName) ==
    IF memberName # <<>>
    THEN "/restfiles/ds/" \o PathEscape(datasetName)
         \o "(" \o PathEscape(memberName) \o ")"
    ELSE DatasetByName(datasetName)

\* one request, answered without a body to decode: the statuses in ok succeed
DatasetCommand(req, ok, resp) ==
    IF resp.err THEN Out(<<req>>, Fail(FailedToMakeRequest))
    ELSE IF resp.status \notin ok
    THEN Out(<<req>>, Fail(ApiRequestFailed(resp)))
    ELSE Out(<<req>>, Ok("done"))

\* CreateDataset, "Prepare request body": the keys of the JSON object
CreateDatasetKeys(request) ==
    {"dsname", "dsorg"}
    \cup (IF request.Volume # <<>> THEN {"vol"} ELSE {})
    \cup (IF request.Space.Primary > 0
          THEN {"alcunit", "primary", "secondary"} ELSE {})
    \cup (IF (request.Space.Primary > 0 /\ request.Space.Directory > 0)
             \/ request.Directory > 0 THEN {"dirblk"} ELSE {})
    \cup (IF request.RecordFormat # "" THEN {"recfm"} ELSE {})
    \cup (IF request.RecordLength > 0 THEN {"lrecl"} ELSE {})
    \cup (IF request.BlockSize > 0 THEN {"blksize"} ELSE {})

CreateDatasetBody(request) ==
    [k \in CreateDatasetKeys(request) |->
        CASE k = "dsname"    -> request.Name
          [] k = "dsorg"     -> request.Type
          [] k = "vol"       -> request.Volume
          [] k = "alcunit"   -> request.Space.Unit
          [] k = "primary"   -> request.Space.Primary
          [] k = "secondary" -> request.Space.Secondary
          [] k = "dirblk"    -> IF request.Directory > 0 THEN request.Directory
                                ELSE request.Space.Directory
          [] k = "recfm"     -> request.RecordFormat
          [] k = "lrecl"     -> request.RecordLength
          [] k = "blksize"   -> request.BlockSize]

\* CreateDataset: POST ds/{name} with the JSON body; Created and OK succeed
CreateDataset(s, request, resp) ==
    DatasetCommand(
        NewRequest("POST", s.BaseURL \o DatasetByName(request.Name),
                   HeaderSet(SessionHeaders(s), "Content-Type", "application/json"),
                   JSONBody(CreateDatasetBody(request))),
        {201, 200}, resp)

\* UploadContent: PUT of the content as text/plain; Created, OK and
\* NoContent succeed
UploadContent(s, request, resp) ==
    DatasetCommand(
        NewRequest("PUT",
                   s.BaseURL \o ContentPath(request.DatasetName, request.MemberName),
                   HeaderSet(SessionHeaders(s), "Content-Type", "text/plain"),
                   PlainTextBody(request.Content)),
        {201, 200, 204}, resp)

\* A faulty DownloadContent: reads the content sub-resource of the path
DownloadContentSuffix(s, request, resp) ==
    LET apiURL ==
            WithQuery(s.BaseURL \o ContentPath(request.DatasetName, request.MemberName)
                          \o "/content",
                      IF request.Encoding # <<>>
                      THEN <<(<<"encoding", request.Encoding>>)>> ELSE <<>>)
        req == NewRequest("GET", apiURL, SessionHeaders(s), NoBody)
        read == ReadAll(resp)
    IN  IF resp.err THEN Out(<<req>>, Fail(FailedToMakeRequest))
        ELSE IF resp.status # 200
        THEN Out(<<req>>, Fail(ApiRequestFailed(resp)))
        ELSE IF read.err
        THEN Out(<<req>>, Fail(Wrap("failed to read response body",
                                    PlainError("read error"))))
        ELSE Out(<<req>>, Ok(read.data.text))

\* DownloadContent: GET of the same path, with the encoding as a query
\* parameter when one is given; the body of an OK response is the content
DownloadContent(s, request, resp) ==
    LET apiURL ==
            WithQuery(s.BaseURL \o ContentPath(request.DatasetName, request.MemberName),
                      IF request.Encoding # <<>>
                      THEN <<(<<"encoding", request.Encoding>>)>> ELSE <<>>)
        req == NewRequest("GET", apiURL, SessionHeaders(s), NoBody)
        read == ReadAll(resp)
    IN  IF resp.err THEN Out(<<req>>, Fail(FailedToMakeRequest))
        ELSE IF resp.status # 200
        THEN Out(<<req>>, Fail(ApiRequestFailed(resp)))
        ELSE IF read.err
        THEN Out(<<req>>, Fail(Wrap("failed to read response body",
                                    PlainError("read error"))))
        ELSE Out(<<req>>, Ok(read.data.text))

\* fmt.Sprintf(MemberByNameEndpoint, url.PathEscape(memberName))
MemberByName(member) == "/member/" \o PathEscape(member)

\* ListMembers and GetMember: GET, OK only, the body decoded as an object
FetchObject(s, path, resp) ==
    LET req == NewRequest("GET", s.BaseURL \o path, SessionHeaders(s), NoBody)
        dec == DecodeObject(resp)
    IN  IF resp.err THEN Out(<<req>>, Fail(FailedToMakeRequest))
        ELSE IF resp.status # 200
        THEN Out(<<req>>, Fail(ApiRequestFailed(resp)))
        ELSE IF ~dec.ok THEN Out(<<req>>, dec)
        ELSE Out(<<req>>, Ok(dec.value))

ListMembers(s, datasetName, resp) ==
    FetchObject(s, DatasetByName(datasetName) \o "/member", resp)

GetMember(s, datasetName, memberName, resp) ==
    FetchObject(s, DatasetByName(datasetName) \o MemberByName(memberName), resp)

\* DeleteMember: DELETE ds/{name}/member/{member}; OK and NoContent succeed
DeleteMember(s, datasetName, memberName, resp) ==
    DatasetCommand(
        NewRequest("DELETE",
                   s.BaseURL \o DatasetByName(datasetName) \o MemberByName(memberName),
                   SessionHeaders(s), NoBody),
        {200, 204}, resp)

\* A faulty transfer: addressed to the source, the target in the body
TransferToSource(s, kind, from, to, resp) ==
    DatasetCommand(
        NewRequest("PUT", s.BaseURL \o DatasetByName(from),
                   HeaderSet(SessionHeaders(s), "Content-Type", "application/json"),
                   JSONBody([k \in {"request", "from-dataset"} |->
                               IF k = "request" THEN kind
                               ELSE [dsn |-> to]])),
        {201, 200}, resp)

\* CopyDataset and RenameDataset: PUT to the target with the request kind and
\* the source under from-dataset.dsn; Created and OK succeed
Transfer(s, kind, from, to, resp) ==
    DatasetCommand(
        NewRequest("PUT", s.BaseURL \o DatasetByName(to),
                   HeaderSet(SessionHeaders(s), "Content-Type", "application/json"),
                   JSONBody([k \in {"request", "from-dataset"} |->
                               IF k = "request" THEN kind
                               ELSE [dsn |-> from]])),
        {201, 200}, resp)

CopyDataset(s, sourceName, targetName, resp) ==
    Transfer(s, "copy", sourceName, targetName, resp)

RenameDataset(s, oldName, newName, resp) ==
    Transfer(s, "rename", oldName, newName, resp)

-----------------------------------------------------------------------------
(* pkg/jobs convenience: WaitForJobCompletion and isJobComplete *)

Lower == <<"a", "b", "c", "d", "e", "f", "g", "h", "i", "j", "k", "l", "m",
           "n", "o", "p", "q", "r", "s", "t", "u", "v", "w", "x", "y", "z">>
Upper == <<"A", "B", "C", "D", "E", "F", "G", "H", "I", "J", "K", "L", "M",
           "N", "O", "P", "Q", "R", "S", "T", "U", "V", "W", "X", "Y", "Z">>

UpperChar(c) ==
    IF \E i \in 1..26 : Lower[i] = c
    THEN Upper[CHOOSE i \in 1..26 : Lower[i] = c]
    ELSE c

\* strings.ToUpper
ToUpper(s) == [i \in 1..Len(s) |-> UpperChar(s[i])]

\* strings.Contains
Contains(s, sub) ==
    \E i \in 0..(Len(s) - Len(sub)) :
        \A j \in 1..Len(sub) : s[i + j] = sub[j]

completedStatuses ==
    << <<"O", "U", "T", "P", "U", "T">>,
       <<"C", "C", " ", "0", "0", "0", "0">>,
       <<"C", "C", " ", "0", "0", "0", "1">>,
       <<"C", "C", " ", "0", "0", "0", "2">>,
       <<"C", "C", " ", "0", "0", "0", "3">>,
       <<"C", "C", " ", "0", "0", "0", "4">>,
       <<"A", "B", "E", "N", "D">> >>

\* A faulty isJobComplete: the status is compared without upper-casing it.
isJobCompleteCaseSensitive(status) ==
    \E k \in 1..Len(completedStatuses) : Contains(status, completedStatuses[k])

isJobComplete(status) ==
    \E k \in 1..Len(completedStatuses) :
        Contains(ToUpper(status), completedStatuses[k])

\* return "", err: the empty status next to the error
FailedWait(e) == [ok |-> FALSE, err |-> e, value |-> <<>>]

\* fmt.Errorf("timeout waiting for job %s to complete", correlator)
TimeoutError == PlainError("timeout waiting for job %s to complete")

\* fmt.Errorf("failed to get job status: %w", err)
FailedToGetJobStatus(err) == Wrap("failed to get job status", err)

\* A faulty timeout check: the wait gives up one tick after the timeout has
\* passed.
TimedOutLate(elapsed, timeout) == elapsed > timeout + 1

\* A faulty timeout check: the wait gives up when the elapsed time reaches
\* the timeout.
TimedOutInclusive(elapsed, timeout) == elapsed >= timeout

\* if time.Since(startTime) > timeout
TimedOut(elapsed, timeout) == elapsed > timeout

\* A faulty loop body: a failed poll is followed by the sleep and retried.
PollOutcomeRetry(got) ==
    IF got.result.ok /\ isJobComplete(got.result.value)
    THEN [pc |-> "done", result |-> Ok(got.result.value)]
    ELSE [pc |-> "sleep", result |-> Ok(<<>>)]

\* WaitForJobCompletion, the loop body after the poll: the error ends the
\* wait, a complete status ends it, anything else goes on to the sleep
PollOutcome(got) ==
    IF ~got.result.ok
    THEN [pc |-> "done",
          result |-> FailedWait(FailedToGetJobStatus(got.result.err))]
    ELSE IF isJobComplete(got.result.value)
    THEN [pc |-> "done", result |-> Ok(got.result.value)]
    ELSE [pc |-> "sleep", result |-> Ok(<<>>)]

-----------------------------------------------------------------------------
(* pkg/datasets convenience: the validators *)

\* len(name): bytes of the UTF-8 text, two for the one non-ASCII character
\* the model uses
RECURSIVE ByteLen(_)
ByteLen(s) ==
    IF s = <<>> THEN 0
    ELSE (IF Head(s) = "é" THEN 2 ELSE 1) + ByteLen(Tail(s))

UpperLetters == {Upper[i] : i \in 1..26}
DigitChars   == {Digits[i] : i \in 1..10}

\* regexp `^[A-Z@#$][A-Z0-9@#$.-]*$`, MatchString
validPattern(name) ==
    /\ Len(name) >= 1
    /\ name[1] \in UpperLetters \cup {"@", "#", "$"}
    /\ \A i \in 2..Len(name) :
          name[i] \in UpperLetters \cup DigitChars \cup {"@", "#", "$", ".", "-"}

\* strings.HasPrefix / strings.HasSuffix with a one-character argument
HasPrefix(s, c) == Len(s) >= 1 /\ s[1] = c
HasSuffix(s, c) == Len(s) >= 1 /\ s[Len(s)] = c

MaxDatasetNameLen == 44
MaxMemberNameLen  == 8

\* A faulty ValidateDatasetName: no check for consecutive hyphens
ValidateDatasetNameNoHyphens(name) ==
    IF name = <<>> THEN PlainError("dataset name cannot be empty")
    ELSE IF ByteLen(name) > MaxDatasetNameLen
    THEN PlainError("dataset name cannot exceed 44 characters")
    ELSE IF ~validPattern(name)
    THEN PlainError("dataset name contains invalid characters")
    ELSE IF Contains(name, <<".", ".">>)
    THEN PlainError("dataset name cannot contain consecutive periods")
    ELSE IF HasPrefix(name, ".") \/ HasSuffix(name, ".")
    THEN PlainError("dataset name cannot start or end with a period")
    ELSE NoError

\* ValidateDatasetName: the error it returns, NoError for nil
ValidateDatasetName(name) ==
    IF name = <<>> THEN PlainError("dataset name cannot be empty")
    ELSE IF ByteLen(name) > MaxDatasetNameLen
    THEN PlainError("dataset name cannot exceed 44 characters")
    ELSE IF ~validPattern(name)
    THEN PlainError("dataset name contains invalid characters")
    ELSE IF Contains(name, <<".", ".">>)
    THEN PlainError("dataset name cannot contain consecutive periods")
    ELSE IF HasPrefix(name, ".") \/ HasSuffix(name, ".")
    THEN PlainError("dataset name cannot start or end with a period")
    ELSE IF Contains(name, <<"-", "-">>)
    THEN PlainError("dataset name cannot contain consecutive hyphens")
    ELSE NoError

\* ValidateMemberName: the error it returns, NoError for nil
ValidateMemberName(name) ==
    IF name = <<>> THEN PlainError("member name cannot be empty")
    ELSE IF ByteLen(name) > MaxMemberNameLen
    THEN PlainError("member name cannot exceed 8 characters")
    ELSE IF ~validPattern(name)
    THEN PlainError("member name contains invalid characters")
    ELSE IF Contains(name, <<".", ".">>)
    THEN PlainError("member name cannot contain consecutive periods")
    ELSE IF HasPrefix(name, ".") \/ HasSuffix(name, ".")
    THEN PlainError("member name cannot start or end with a period")
    ELSE NoError

DatasetTypes  == {"SEQ", "PO", "PDSE", "VSAM"}
SpaceUnits    == {"TRK", "CYL", "KB", "MB", "GB"}
RecordFormats == {"F", "V", "U"}
MaxRecordLength == 32760
MaxDirectory    == 9999

\* ValidateCreateDatasetRequest
ValidateCreateDatasetRequest(request) ==
    IF request.isNil THEN PlainError("request cannot be nil")
    ELSE IF ValidateDatasetName(request.Name) # NoError
    THEN Wrap("invalid dataset name", ValidateDatasetName(request.Name))
    ELSE IF request.Type \notin DatasetTypes
    THEN PlainError("invalid dataset type: %s")
    ELSE IF request.Space.Primary <= 0
    THEN PlainError("primary space allocation must be greater than 0")
    ELSE IF request.Space.Secondary < 0
    THEN PlainError("secondary space allocation cannot be negative")
    ELSE IF request.Space.Unit \notin SpaceUnits
    THEN PlainError("invalid space unit: %s")
    ELSE IF request.RecordFormat # "" /\ request.RecordFormat \notin RecordFormats
    THEN PlainError("invalid record format: %s")
    ELSE IF request.RecordLength > 0
            /\ (request.RecordLength < 1 \/ request.RecordLength > MaxRecordLength)
    THEN PlainError("record length must be between 1 and 32760")
    ELSE IF request.BlockSize > 0
            /\ (request.BlockSize < 1 \/ request.BlockSize > MaxRecordLength)
    THEN PlainError("block size must be between 1 and 32760")
    ELSE IF request.Type = "PO" /\ request.Directory > 0
            /\ (request.Directory < 1 \/ request.Directory > MaxDirectory)
    THEN PlainError("directory blocks must be between 1 and 9999")
    ELSE NoError

\* ValidateUploadRequest
ValidateUploadRequest(request) ==
    IF request.isNil THEN PlainError("request cannot be nil")
    ELSE IF ValidateDatasetName(request.DatasetName) # NoError
    THEN Wrap("invalid dataset name", ValidateDatasetName(request.DatasetName))
    ELSE IF request.MemberName # <<>> /\ ValidateMemberName(request.MemberName) # NoError
    THEN Wrap("invalid member name", ValidateMemberName(request.MemberName))
    ELSE IF request.Content = "" THEN PlainError("content cannot be empty")
    ELSE NoError

\* ValidateDownloadRequest
ValidateDownloadRequest(request) ==
    IF request.isNil THEN PlainError("request cannot be nil")
    ELSE IF ValidateDatasetName(request.DatasetName) # NoError
    THEN Wrap("invalid dataset name", ValidateDatasetName(request.DatasetName))
    ELSE IF request.MemberName # <<>> /\ ValidateMemberName(request.MemberName) # NoError
    THEN Wrap("invalid member name", ValidateMemberName(request.MemberName))
    ELSE NoError

-----------------------------------------------------------------------------
(* Closing a manager *)

\* what a Close call returns, the session and the idle connections after it
Closed(result, s, kept) == [result |-> result, session |-> s, idle |-> kept]

\* A faulty CloseJobManager: it takes the session down with the connections
CloseJobManagerEndsSession(s, kept) ==
    Closed(Ok("closed"), [s EXCEPT !.BaseURL = "", !.Headers = <<>>], 0)

\* ZOSMFJobManager.CloseJobManager: client.CloseIdleConnections() on the
\* client of the session, which NewSession never leaves nil
CloseJobManager(s, kept) == Closed(Ok("closed"), s, 0)

\* ZOSMFDatasetManager.CloseDatasetManager
CloseDatasetManager(s, kept) == Closed(Ok("closed"), s, 0)

-----------------------------------------------------------------------------
(* The profile manager and the profile helpers *)

\* the values of the configuration file: JSON strings, numbers, booleans
\* and null; a number is an integer, which int(port) leaves as it is
JString(s) == [kind |-> "string", str |-> s, num |-> 0, bool |-> FALSE]
JNumber(n) == [kind |-> "number", str |-> "", num |-> n, bool |-> FALSE]
JBool(b)   == [kind |-> "bool", str |-> "", num |-> 0, bool |-> b]
JNull      == [kind |-> "null", str |-> "", num |-> 0, bool |-> FALSE]

\* the zero value of ZOSMFProfile
ZeroProfile ==
    [Name |-> "", Host |-> "", Port |-> 0, User |-> <<>>, Password |-> "",
     Protocol |-> "", RejectUnauthorized |-> FALSE, BasePath |-> ""]

\* ZOSMFProfileManager.loadConfig: os.Stat, os.ReadFile, json.Unmarshal
\* into a ZoweConfig, which has the fields Profiles and Default only
loadConfig(cfg) ==
    IF ~cfg.exists THEN Fail(PlainError("zowe config file not found at %s"))
    ELSE IF ~cfg.parses
         THEN Fail(Wrap("failed to unmarshal config", PlainError("json")))
         ELSE Ok([Profiles |-> cfg.profiles, Default |-> cfg.default])

\* ZOSMFProfileManager.GetZOSMFProfile: the profile data converted key by
\* key, each key under its own type assertion
GetZOSMFProfile(cfg, name) ==
    LET loaded == loadConfig(cfg) IN
    IF ~loaded.ok THEN Fail(Wrap("failed to load config", loaded.err))
    ELSE IF "zosmf" \notin DOMAIN cfg.profiles
         THEN Fail(PlainError("no zosmf profiles found in configuration"))
    ELSE IF name \notin DOMAIN cfg.profiles["zosmf"]
         THEN Fail(PlainError("zosmf profile '" \o name \o "' not found"))
    ELSE
        LET profileData == cfg.profiles["zosmf"][name]
            profileMap == profileData.fields
            is(key, kind) ==
                /\ key \in DOMAIN profileMap
                /\ profileMap[key].kind = kind
            named == [ZeroProfile EXCEPT !.Name = name]
        IN  IF profileData.kind # "object" THEN Ok(named)
            ELSE Ok([named EXCEPT
                    !.Host = IF is("host", "string")
                             THEN profileMap["host"].str ELSE @,
                    !.Port = IF is("port", "number")
                             THEN profileMap["port"].num ELSE @,
                    !.User = IF is("user", "string")
                             THEN profileMap["user"].str ELSE @,
                    !.Password = IF is("password", "string")
                                 THEN profileMap["password"].str ELSE @,
                    !.RejectUnauthorized =
                        IF is("rejectUnauthorized", "bool")
                        THEN profileMap["rejectUnauthorized"].bool ELSE TRUE,
                    !.BasePath = IF is("basePath", "string")
                                 THEN profileMap["basePath"].str ELSE @])

\* the orders in which a range over a map with these keys can visit them
RangeKeys(keys) ==
    {order \in [1..Cardinality(keys) -> keys] :
        \A i, j \in DOMAIN order : order[i] = order[j] => i = j}

\* A faulty ListZOSMFProfiles: a missing file is listed as an empty one
ListZOSMFProfilesEmpty(cfg) ==
    LET loaded == loadConfig(cfg) IN
    IF ~loaded.ok THEN {Ok(<<>>)}
    ELSE IF "zosmf" \notin DOMAIN loaded.value.Profiles THEN {Ok(<<>>)}
    ELSE {Ok(names) : names \in RangeKeys(DOMAIN loaded.value.Profiles["zosmf"])}

\* ZOSMFProfileManager.ListZOSMFProfiles: every result the range over the
\* profiles can give
ListZOSMFProfiles(cfg) ==
    LET loaded == loadConfig(cfg) IN
    IF ~loaded.ok THEN {Fail(Wrap("failed to load config", loaded.err))}
    ELSE IF "zosmf" \notin DOMAIN loaded.value.Profiles THEN {Ok(<<>>)}
    ELSE {Ok(names) : names \in RangeKeys(DOMAIN loaded.value.Profiles["zosmf"])}

\* ZOSMFProfileManager.saveConfig: the file then holds what
\* json.MarshalIndent writes for a ZoweConfig, the keys profiles and default
saveConfig(zoweConfig) ==
    [exists |-> TRUE, parses |-> TRUE, profiles |-> zoweConfig.Profiles,
     default |-> zoweConfig.Default, other |-> {}]

\* a call that writes the file: what it returns and the file afterwards
Wrote(result, cfg) == [result |-> result, config |-> cfg]

\* A faulty SaveZOSMFProfile, "Convert profile to map": the base path is
\* not written
ProfileMapNoBasePath(p) ==
    [kind |-> "object",
     fields |-> [host |-> JString(p.Host), port |-> JNumber(p.Port),
                 user |-> JString(p.User), password |-> JString(p.Password),
                 rejectUnauthorized |-> JBool(p.RejectUnauthorized)]]

\* SaveZOSMFProfile, "Convert profile to map"
ProfileMap(p) ==
    [kind |-> "object",
     fields |-> [host |-> JString(p.Host), port |-> JNumber(p.Port),
                 user |-> JString(p.User), password |-> JString(p.Password),
                 rejectUnauthorized |-> JBool(p.RejectUnauthorized),
                 basePath |-> JString(p.BasePath)]]

\* ZOSMFProfileManager.SaveZOSMFProfile
SaveZOSMFProfile(cfg, p) ==
    LET loaded == loadConfig(cfg)
        config0 == IF loaded.ok THEN loaded.value
                   ELSE [Profiles |-> <<>>, Default |-> <<>>]
        zosmf == IF "zosmf" \in DOMAIN config0.Profiles
                 THEN config0.Profiles["zosmf"] ELSE <<>>
        saved == [n \in DOMAIN zosmf \cup {p.Name} |->
                     IF n = p.Name THEN ProfileMap(p) ELSE zosmf[n]]
        Profiles == [c \in DOMAIN config0.Profiles \cup {"zosmf"} |->
                        IF c = "zosmf" THEN saved ELSE config0.Profiles[c]]
    IN  Wrote(Ok("saved"), saveConfig([config0 EXCEPT !.Profiles = Profiles]))

\* A faulty DeleteZOSMFProfile: it empties the zosmf category
DeleteZOSMFProfileAll(cfg, name) ==
    LET loaded == loadConfig(cfg) IN
    IF ~loaded.ok
    THEN Wrote(Fail(Wrap("failed to load config", loaded.err)), cfg)
    ELSE IF "zosmf" \notin DOMAIN loaded.value.Profiles
         THEN Wrote(Fail(PlainError("no zosmf profiles found")), cfg)
    ELSE IF name \notin DOMAIN loaded.value.Profiles["zosmf"]
         THEN Wrote(Fail(PlainError("zosmf profile '" \o name \o "' not found")),
                    cfg)
    ELSE Wrote(Ok("deleted"),
               saveConfig([loaded.value EXCEPT !.Profiles["zosmf"] = <<>>]))

\* ZOSMFProfileManager.DeleteZOSMFProfile
DeleteZOSMFProfile(cfg, name) ==
    LET loaded == loadConfig(cfg) IN
    IF ~loaded.ok
    THEN Wrote(Fail(Wrap("failed to load config", loaded.err)), cfg)
    ELSE IF "zosmf" \notin DOMAIN loaded.value.Profiles
         THEN Wrote(Fail(PlainError("no zosmf profiles found")), cfg)
    ELSE IF name \notin DOMAIN loaded.value.Profiles["zosmf"]
         THEN Wrote(Fail(PlainError("zosmf profile '" \o name \o "' not found")),
                    cfg)
    ELSE
        LET profiles == loaded.value.Profiles["zosmf"]
            kept == [n \in DOMAIN profiles \ {name} |-> profiles[n]]
        IN  Wrote(Ok("deleted"),
                  saveConfig([loaded.value EXCEPT !.Profiles["zosmf"] = kept]))

\* A faulty GetDefaultZOSMFProfile: when the default profile is gone it
\* returns another profile of the category
GetDefaultZOSMFProfileAny(cfg) ==
    LET loaded == loadConfig(cfg) IN
    IF ~loaded.ok THEN Fail(Wrap("failed to load config", loaded.err))
    ELSE IF "zosmf" \notin DOMAIN loaded.value.Default
         THEN Fail(PlainError("no default zosmf profile set"))
         ELSE LET d == loaded.value.Default["zosmf"]
                  held == DOMAIN loaded.value.Profiles["zosmf"]
              IN  IF d \in held \/ held = {}
                  THEN GetZOSMFProfile(cfg, d)
                  ELSE GetZOSMFProfile(cfg, CHOOSE n \in held : TRUE)

\* ZOSMFProfileManager.GetDefaultZOSMFProfile
GetDefaultZOSMFProfile(cfg) ==
    LET loaded == loadConfig(cfg) IN
    IF ~loaded.ok THEN Fail(Wrap("failed to load config", loaded.err))
    ELSE IF "zosmf" \notin DOMAIN loaded.value.Default
         THEN Fail(PlainError("no default zosmf profile set"))
         ELSE GetZOSMFProfile(cfg, loaded.value.Default["zosmf"])

\* ZOSMFProfileManager.CreateSession
CreateSession(cfg, profileName) ==
    LET got == GetZOSMFProfile(cfg, profileName)
    IN  IF ~got.ok THEN Fail(got.err) ELSE Ok(NewSession(got.value))

\* CreateZOSMFProfileWithOptions
CreateZOSMFProfileWithOptions(name, host, port, user, password, rejectUnauthorized, basePath) ==
    [ZeroProfile EXCEPT !.Name = name, !.Host = host, !.Port = port,
                        !.User = user, !.Password = password,
                        !.RejectUnauthorized = rejectUnauthorized,
                        !.BasePath = basePath]

\* CreateZOSMFProfile
CreateZOSMFProfile(name, host, port, user, password) ==
    [ZeroProfile EXCEPT !.Name = name, !.Host = host, !.Port = port,
                        !.User = user, !.Password = password,
                        !.RejectUnauthorized = TRUE, !.BasePath = ""]

\* CreateSessionDirectWithOptions
CreateSessionDirectWithOptions(host, port, user, password, rejectUnauthorized, basePath) ==
    NewSession([ZeroProfile EXCEPT !.Host = host, !.Port = port,
                    !.User = user, !.Password = password,
                    !.RejectUnauthorized = rejectUnauthorized,
                    !.BasePath = basePath])

\* CreateSessionDirect
CreateSessionDirect(host, port, user, password) ==
    NewSession([ZeroProfile EXCEPT !.Host = host, !.Port = port,
                    !.User = user, !.Password = password,
                    !.RejectUnauthorized = TRUE, !.BasePath = ""])

\* ValidateProfile
ValidateProfile(p) ==
    IF p.Host = "" THEN Fail(PlainError("host is required"))
    ELSE IF p.User = <<>> THEN Fail(PlainError("user is required"))
    ELSE IF p.Password = "" THEN Fail(PlainError("password is required"))
    ELSE IF p.Port <= 0 THEN Fail(PlainError("port must be greater than 0"))
    ELSE Ok("valid")

-----------------------------------------------------------------------------
(* The inputs the operations are called with and the responses they get *)

ACTIVE   == <<"A", "C", "T", "I", "V", "E">>
OUTPUT   == <<"O", "U", "T", "P", "U", "T">>
output   == <<"O", "u", "t", "p", "u", "t">>
CC0000   == <<"C", "C", " ", "0", "0", "0", "0">>
CC0004   == <<"C", "C", " ", "0", "0", "0", "4">>
CC0008   == <<"C", "C", " ", "0", "0", "0", "8">>
ABENDS0C4 == <<"A", "B", "E", "N", "D", " ", "S", "0", "C", "4">>
abended  == <<"a", "b", "e", "n", "d", "e", "d">>

JobIDs == { <<"J", "1">> }
JobNames == { <<"T", "E", "S", "T", "#", "1">> }
SpoolIDs == {1, 102}

Job1 == [JobID |-> <<"J", "1">>, Status |-> ACTIVE]
Job2 == [JobID |-> <<"J", "2">>, Status |-> OUTPUT]
JobLists == { <<>>, <<Job1>>, <<Job1, Job2>> }

DsNames == { <<"I", "B", "M", ".", "A">>, <<"X", "(", "Y", ")">> }
Dataset1 == [Name |-> <<"I", "B", "M", ".", "A">>]
Dataset2 == [Name |-> <<"I", "B", "M", ".", "B">>]
DatasetLists == { <<>>, <<Dataset2, Dataset1>> }

NilFilter ==
    [isNil |-> TRUE, Owner |-> <<>>, Prefix |-> <<>>, MaxJobs |-> 0,
     JobID |-> <<>>, JobName |-> <<>>, Status |-> <<>>, UserCorrelator |-> <<>>]
JobFilters ==
    { NilFilter,
      [NilFilter EXCEPT !.isNil = FALSE, !.Owner = <<"I", "B", "M">>,
                        !.Prefix = <<"T", "*">>, !.MaxJobs = 10] }

NilDatasetFilter ==
    [isNil |-> TRUE, Name |-> <<>>, Volume |-> <<>>, Owner |-> <<>>, Limit |-> 0]
DatasetFilters ==
    { NilDatasetFilter,
      NameFilter(<<"I", "B", "M", ".", "*">>),
      [NilDatasetFilter EXCEPT !.isNil = FALSE, !.Volume = <<"V", "O", "L">>,
                               !.Limit = 5] }

\* every combination of the three sources with every option set, and each
\* single source with no option set
SubmitJobRequests ==
    { [JobStatement |-> st, JobDataSet |-> ds, JobLocalFile |-> lf,
       Volume |-> "VOL001", Directory |-> "/tmp", Extension |-> "jcl"] :
        st \in {"", "//J JOB"}, ds \in {"", "IBM.JCL(J)"}, lf \in {"", "j.jcl"} }
    \cup
    { [JobStatement |-> o[1], JobDataSet |-> o[2], JobLocalFile |-> o[3],
       Volume |-> "", Directory |-> "", Extension |-> ""] :
        o \in { <<"//J JOB", "", "">>, <<"", "IBM.JCL(J)", "">>,
                <<"", "", "j.jcl">> } }

\* the bodies a response may carry
ErrorText == TextBody("Unauthorized")
JobBody ==
    [ObjectBody({"jobid", "status"}, TRUE) EXCEPT
        !.jobid = <<"J", "1">>, !.status = OUTPUT]
DatasetBody ==
    [ObjectBody({"name"}, TRUE) EXCEPT !.name = <<"I", "B", "M", ".", "A">>]
JobListBodies ==
    { ObjectBody({}, FALSE), ObjectBody({}, TRUE) }
    \cup { ListBody("jobs", L) : L \in JobLists }
    \cup { ArrayBody(L) : L \in JobLists }
DatasetListBodies == { ListBody("datasets", L) : L \in DatasetLists }

HTTPStatuses == {200, 201, 202, 204, 404, 500}

\* http.Client.Do failed: there is no response
TransportFailure ==
    [err |-> TRUE, status |-> 0, body |-> BlankBody, readOK |-> TRUE]
\* a response with this status whose body arrives whole
Reply(st, b) == [err |-> FALSE, status |-> st, body |-> b, readOK |-> TRUE]
\* a response with this status whose body breaks off while it is read
CutReply(st, b) == [err |-> FALSE, status |-> st, body |-> b, readOK |-> FALSE]

\* what the transport may answer to the request of each kind of operation
JobResponses ==
    { TransportFailure, CutReply(200, JobBody), CutReply(500, ErrorText),
      Reply(404, ErrorText), Reply(500, ErrorText), Reply(200, ErrorText) }
    \cup { Reply(st, JobBody) : st \in HTTPStatuses }
SubmitResponses ==
    { TransportFailure, Reply(500, ErrorText), Reply(200, ErrorText) }
    \cup { Reply(st, JobBody) : st \in HTTPStatuses }
ListJobsResponses ==
    { TransportFailure, CutReply(200, ListBody("jobs", <<Job1>>)),
      CutReply(500, ErrorText), Reply(404, ErrorText), Reply(200, ErrorText) }
    \cup { Reply(st, b) : st \in {200, 201, 500}, b \in JobListBodies }
SpoolResponses ==
    { TransportFailure, CutReply(404, ErrorText), Reply(200, ErrorText),
      Reply(200, ArrayBody(<<>>)), Reply(204, ArrayBody(<<>>)),
      Reply(404, ErrorText) }
CommandResponses ==
    { TransportFailure, CutReply(500, ErrorText), Reply(500, ErrorText) }
    \cup { Reply(st, TextBody("")) : st \in HTTPStatuses }
DatasetListResponses ==
    { TransportFailure, CutReply(200, ListBody("datasets", <<Dataset1>>)),
      CutReply(500, ErrorText), Reply(404, ErrorText), Reply(500, ErrorText),
      Reply(200, ErrorText) }
    \cup { Reply(st, b) : st \in {200, 201}, b \in DatasetListBodies }
DatasetResponses ==
    { TransportFailure, CutReply(500, ErrorText), Reply(404, ErrorText),
      Reply(500, ErrorText), Reply(200, ErrorText), Reply(200, DatasetBody),
      Reply(201, DatasetBody) }

\* the profile whose session the managers of the operation model use
OpProfile ==
    [Name |-> "p", Host |-> "zos.example.com", Port |-> 10443,
     User |-> <<"I", "B", "M">>, Password |-> "pass", Protocol |-> "",
     RejectUnauthorized |-> TRUE, BasePath |-> "/zosmf"]

NoOp == [op |-> "none", args |-> <<>>, reqs |-> <<>>, resps |-> <<>>,
         result |-> Ok("none")]

\* the server the content operations talk to has stored nothing
NoServer == {}

\* no file at the profile manager's configPath
NoConfig == [exists |-> FALSE]

\* resp, err := session.GetHTTPClient().Do(req); defer resp.Body.Close():
\* the connection of the last response goes back to the transport's idle
\* connections, a failed connection does not
IdleAfter(kept, resps) ==
    IF resps = <<>> THEN kept
    ELSE IF resps[Len(resps)].err THEN 0 ELSE 1

NoWait == [correlator |-> <<>>, timeout |-> 0, pollInterval |-> 0,
           startTime |-> 0, trace |-> <<>>, result |-> Ok(<<>>)]

-----------------------------------------------------------------------------
(* The session model: NewSession on every profile, then header changes *)

InitSession ==
    /\ profile \in SessionProfiles
    /\ session = NoSession
    /\ last = NoOp
    /\ calls = 0
    /\ pc = "idle"
    /\ now = 0
    /\ wait = NoWait
    /\ server = NoServer
    /\ config = NoConfig
    /\ idle = 0

DoNewSession ==
    /\ ~session.made
    /\ session' = NewSession(profile)
    /\ UNCHANGED <<profile, last, calls, pc, now, wait, server, config, idle>>

DoAddHeader ==
    /\ session.made
    /\ \E k \in HeaderKeys, v \in HeaderValues :
          session' = AddHeader(session, k, v)
    /\ UNCHANGED <<profile, last, calls, pc, now, wait, server, config, idle>>

DoRemoveHeader ==
    /\ session.made
    /\ \E k \in HeaderKeys : session' = RemoveHeader(session, k)
    /\ UNCHANGED <<profile, last, calls, pc, now, wait, server, config, idle>>

NextSession == DoNewSession \/ DoAddHeader \/ DoRemoveHeader

SpecSession == InitSession /\ [][NextSession]_vars

-----------------------------------------------------------------------------
(* The operation model: one session, the managers' operations on it *)

Init ==
    /\ profile = OpProfile
    /\ session = NewSession(OpProfile)
    /\ last = NoOp
    /\ calls = 0
    /\ pc = "idle"
    /\ now = 0
    /\ wait = NoWait
    /\ server = NoServer
    /\ config = NoConfig
    /\ idle = 0

\* an operation ran: its requests went to the transport, its result is kept
Ran(op, args, resps, out) ==
    /\ calls + Len(out.reqs) <= MaxCalls
    /\ last' = [op |-> op, args |-> args, reqs |-> out.reqs,
                resps |-> SubSeq(resps, 1, Len(out.reqs)), result |-> out.result]
    /\ calls' = calls + Len(out.reqs)
    /\ idle' = IdleAfter(idle, SubSeq(resps, 1, Len(out.reqs)))
    /\ UNCHANGED <<profile, session, pc, now, wait, server, config>>

OpAddHeader ==
    /\ session' = AddHeader(session, "X-Custom-Header", "custom-value")
    /\ UNCHANGED <<profile, last, calls, pc, now, wait, server, config, idle>>

OpRemoveHeader ==
    /\ session' = RemoveHeader(session, "X-Custom-Header")
    /\ UNCHANGED <<profile, last, calls, pc, now, wait, server, config, idle>>

DoListJobs ==
    \E f \in JobFilters, r \in ListJobsResponses :
        Ran("ListJobs", [filter |-> f], <<r>>, ListJobs(session, f, r))

DoGetJob ==
    \E id \in JobIDs, r \in JobResponses :
        Ran("GetJob", [id |-> id], <<r>>, GetJob(session, id, r))

DoGetJobByNameID ==
    \E n \in JobNames, id \in JobIDs, r \in JobResponses :
        Ran("GetJobByNameID", [name |-> n, id |-> id], <<r>>,
            GetJobByNameID(session, n, id, r))

DoGetJobByCorrelator ==
    \E id \in JobIDs, r \in JobResponses :
        Ran("GetJobByCorrelator", [id |-> id], <<r>>,
            GetJobByCorrelator(session, id, r))

DoGetJobStatus ==
    \E id \in JobIDs, r \in JobResponses :
        Ran("GetJobStatus", [id |-> id], <<r>>, GetJobStatus(session, id, r))

DoGetJobInfo ==
    \E id \in JobIDs, r \in JobResponses :
        Ran("GetJobInfo", [id |-> id], <<r>>, GetJobInfo(session, id, r))

DoGetSpoolFiles ==
    \E id \in JobIDs, r \in SpoolResponses :
        Ran("GetSpoolFiles", [id |-> id], <<r>>, GetSpoolFiles(session, id, r))

DoGetSpoolFileContent ==
    \E id \in JobIDs, n \in SpoolIDs, r \in SpoolResponses :
        Ran("GetSpoolFileContent", [id |-> id, spoolID |-> n], <<r>>,
            GetSpoolFileContent(session, id, n, r))

DoSubmitJob ==
    \E q \in SubmitJobRequests, r \in SubmitResponses :
        Ran("SubmitJob", [request |-> q], <<r>>, SubmitJob(session, q, r))

DoCancelJob ==
    \E id \in JobIDs, r \in CommandResponses :
        Ran("CancelJob", [id |-> id], <<r>>, CancelJob(session, id, r))

DoDeleteJob ==
    \E id \in JobIDs, r \in CommandResponses :
        Ran("DeleteJob", [id |-> id], <<r>>, DeleteJob(session, id, r))

DoPurgeJob ==
    \E id \in JobIDs, r \in CommandResponses :
        Ran("PurgeJob", [id |-> id], <<r>>, PurgeJob(session, id, r))

DoListDatasets ==
    \E f \in DatasetFilters, r \in DatasetListResponses :
        Ran("ListDatasets", [filter |-> f], <<r>>, ListDatasets(session, f, r))

DoGetDataset ==
    \E n \in DsNames, r \in DatasetListResponses :
        Ran("GetDataset", [name |-> n], <<r>>, GetDataset(session, n, r))

DoGetDatasetInfo ==
    \E n \in DsNames, r1 \in DatasetResponses, r2 \in DatasetListResponses :
        Ran("GetDatasetInfo", [name |-> n], <<r1, r2>>,
            GetDatasetInfo(session, n, r1, r2))

DoDeleteDataset ==
    \E n \in DsNames, r \in CommandResponses :
        Ran("DeleteDataset", [name |-> n], <<r>>, DeleteDataset(session, n, r))

Next ==
    \/ OpAddHeader \/ OpRemoveHeader
    \/ DoListJobs \/ DoGetJob \/ DoGetJobByNameID \/ DoGetJobByCorrelator
    \/ DoGetJobStatus \/ DoGetJobInfo \/ DoGetSpoolFiles
    \/ DoGetSpoolFileContent \/ DoSubmitJob
    \/ DoCancelJob \/ DoDeleteJob \/ DoPurgeJob
    \/ DoListDatasets \/ DoGetDataset \/ DoGetDatasetInfo \/ DoDeleteDataset

Spec == Init /\ [][Next]_vars

-----------------------------------------------------------------------------
(* The wait model: one WaitForJobCompletion call, step by step.  Time is   *)
(* counted in ticks; a poll takes zero or one tick, a sleep takes the poll *)
(* interval or one tick more.                                              *)

WaitStatuses ==
    { ACTIVE, CC0008, <<>>, OUTPUT, output, CC0000, CC0004, ABENDS0C4, abended }

JobWithStatus(st) == [JobBody EXCEPT !.status = st]

WaitResponses ==
    { TransportFailure, Reply(404, ErrorText), Reply(200, ErrorText),
      CutReply(200, JobBody) }
    \cup { Reply(200, JobWithStatus(st)) : st \in WaitStatuses }
    \cup { Reply(202, JobWithStatus(OUTPUT)) }

Timeouts == -1..MaxTimeout
PollIntervals == 0..MaxPollInterval

\* one entry of the record of what the wait did
Event(ev, elapsed, ok, status, err) ==
    [ev |-> ev, elapsed |-> elapsed, ok |-> ok, status |-> status, err |-> err]

InitWait ==
    /\ profile = OpProfile
    /\ session = NewSession(OpProfile)
    /\ last = NoOp
    /\ calls = 0
    /\ pc = "idle"
    /\ now \in 0..1
    /\ wait = NoWait
    /\ server = NoServer
    /\ config = NoConfig
    /\ idle = 0

\* startTime := time.Now()
WaitStart ==
    /\ pc = "idle"
    /\ \E c \in JobIDs, t \in Timeouts, p \in PollIntervals :
          wait' = [correlator |-> c, timeout |-> t, pollInterval |-> p,
                   startTime |-> now, trace |-> <<>>, result |-> Ok(<<>>)]
    /\ pc' = "check"
    /\ UNCHANGED <<profile, session, last, calls, now, server, config, idle>>

\* if time.Since(startTime) > timeout { return "", timeout error }
WaitCheck ==
    /\ pc = "check"
    /\ LET elapsed == now - wait.startTime
           over == TimedOut(elapsed, wait.timeout)
       IN  /\ wait' = [wait EXCEPT
                          !.trace = Append(@, Event("check", elapsed, ~over, <<>>, NoError)),
                          !.result = IF over THEN FailedWait(TimeoutError) ELSE @]
           /\ pc' = IF over THEN "done" ELSE "poll"
    /\ UNCHANGED <<profile, session, last, calls, now, server, config, idle>>

\* status, err := jm.GetJobStatus(correlator), and what the loop does with it
WaitPoll ==
    /\ pc = "poll"
    /\ calls < MaxPolls
    /\ \E r \in WaitResponses, d \in 0..1 :
          LET got == GetJobStatus(session, wait.correlator, r)
              outcome == PollOutcome(got)
              elapsed == (now + d) - wait.startTime
          IN  /\ now + d <= MaxTime
              /\ now' = now + d
              /\ calls' = calls + Len(got.reqs)
              /\ idle' = IdleAfter(idle, <<r>>)
              /\ wait' = [wait EXCEPT
                             !.trace = Append(@,
                                 Event("poll", elapsed, got.result.ok,
                                       IF got.result.ok THEN got.result.value
                                       ELSE <<>>,
                                       got.result.err)),
                             !.result = outcome.result]
              /\ pc' = outcome.pc
    /\ UNCHANGED <<profile, session, last, server, config>>

\* time.Sleep(pollInterval)
WaitSleep ==
    /\ pc = "sleep"
    /\ \E extra \in 0..1 :
          /\ now + wait.pollInterval + extra <= MaxTime
          /\ now' = now + wait.pollInterval + extra
          /\ wait' = [wait EXCEPT
                         !.trace = Append(@,
                             Event("sleep", now' - wait.startTime, TRUE, <<>>,
                                   NoError))]
    /\ pc' = "check"
    /\ UNCHANGED <<profile, session, last, calls, server, config, idle>>

NextWait == WaitStart \/ WaitCheck \/ WaitPoll \/ WaitSleep

SpecWait == InitWait /\ [][NextWait]_vars
\* how far the wait has come: every step of a wait adds to its record
waitSteps == <<pc, Len(wait.trace)>>

InitWaitFair == InitWait /\ now = 0

\* The polling model with the clock started at 0 and every step of a started
\* wait taken in the end: the check and the sleep are straight-line code,
\* and every status poll returns
SpecWaitFair ==
    /\ InitWaitFair
    /\ [][NextWait]_vars
    /\ WF_waitSteps(WaitCheck) /\ WF_waitSteps(WaitPoll)
    /\ WF_waitSteps(WaitSleep)


-----------------------------------------------------------------------------
(* The dataset model: one session, the dataset manager's operations on it *)

\* the filters ListDatasets is called with: none, an empty one, and each
\* combination of name pattern, volume and start name
ListFilters ==
    { NilDatasetFilter,
      [NilDatasetFilter EXCEPT !.isNil = FALSE],
      [NilDatasetFilter EXCEPT !.isNil = FALSE, !.Limit = 5],
      [NilDatasetFilter EXCEPT !.isNil = FALSE, !.Owner = <<"I", "B", "M", ".", "B">>],
      NameFilter(<<"S", "Y", "S", "1", ".", "*">>),
      [NilDatasetFilter EXCEPT !.isNil = FALSE, !.Volume = <<"V", "O", "L">>],
      [NilDatasetFilter EXCEPT !.isNil = FALSE, !.Volume = <<"V", "O", "L">>,
                               !.Owner = <<"I", "B", "M", ".", "B">>],
      [NilDatasetFilter EXCEPT !.isNil = FALSE, !.Name = <<"S", "Y", "S", "1", ".", "*">>,
                               !.Volume = <<"V", "O", "L">>, !.Limit = 5] }

ListReplies ==
    { TransportFailure, Reply(404, ErrorText),
      Reply(200, ListBody("datasets", <<Dataset1>>)) }

InitDatasets ==
    /\ profile = OpProfile
    /\ session = NewSession(OpProfile)
    /\ last = NoOp
    /\ calls = 0
    /\ pc = "idle"
    /\ now = 0
    /\ wait = NoWait
    /\ server = NoServer
    /\ config = NoConfig
    /\ idle = 0

DsListDatasets ==
    \E f \in ListFilters, r \in ListReplies :
        Ran("ListDatasets", [filter |-> f], <<r>>, ListDatasets(session, f, r))

\* dataset names: a valid one, one with a lower-case letter and a slash, none
DatasetNames == { <<"I", "B", "M", ".", "A">>, <<"a", "/", "b">>, <<>> }
\* member names: none, a valid one, one with a lower-case letter and a bracket
MemberNames == { <<>>, <<"M", "1">>, <<"m", "(">> }
Contents == { "hello", "" }
Encodings == { <<>>, <<"U", "T", "F", "-", "8">> }

\* CreateSequentialDataset(name), CreatePartitionedDataset(name)
CreateSequential(name) ==
    [isNil |-> FALSE, Name |-> name, Type |-> "SEQ", Volume |-> <<>>,
     Space |-> [Primary |-> 10, Secondary |-> 5, Unit |-> "TRK", Directory |-> 0],
     RecordFormat |-> "V", RecordLength |-> 256, BlockSize |-> 27920,
     Directory |-> 0]
CreatePartitioned(name) ==
    [CreateSequential(name) EXCEPT !.Type = "PO", !.Space.Directory = 5,
                                   !.Directory = 5]

\* answers to a request whose response body is not decoded
CommandReplies ==
    { TransportFailure, Reply(500, ErrorText) }
    \cup { Reply(st, TextBody("")) : st \in {200, 201, 204} }
ContentReplies ==
    { TransportFailure, Reply(404, ErrorText), Reply(200, TextBody("hello")),
      CutReply(200, TextBody("hello")) }
MemberReplies ==
    { TransportFailure, Reply(404, ErrorText), Reply(200, ErrorText),
      Reply(200, ListBody("members", <<>>)) }

DsCreateDataset ==
    \E n \in DatasetNames, r \in CommandReplies :
      \E q \in {CreateSequential(n), CreatePartitioned(n)} :
        Ran("CreateDataset", [request |-> q], <<r>>, CreateDataset(session, q, r))

DsDeleteDataset ==
    \E n \in DatasetNames, r \in CommandReplies :
        Ran("DeleteDataset", [name |-> n], <<r>>, DeleteDataset(session, n, r))

DsUploadContent ==
    \E n \in DatasetNames, m \in MemberNames, c \in Contents,
       r \in CommandReplies :
        LET q == [isNil |-> FALSE, DatasetName |-> n, MemberName |-> m,
                  Content |-> c]
        IN  Ran("UploadContent", [request |-> q], <<r>>,
                UploadContent(session, q, r))

DsDownloadContent ==
    \E n \in DatasetNames, m \in MemberNames, c \in Encodings,
       r \in ContentReplies :
        LET q == [isNil |-> FALSE, DatasetName |-> n, MemberName |-> m,
                  Encoding |-> c]
        IN  Ran("DownloadContent", [request |-> q], <<r>>,
                DownloadContent(session, q, r))

DsListMembers ==
    \E n \in DatasetNames, r \in MemberReplies :
        Ran("ListMembers", [name |-> n], <<r>>, ListMembers(session, n, r))

DsGetMember ==
    \E n \in DatasetNames, m \in MemberNames, r \in MemberReplies :
        Ran("GetMember", [name |-> n, member |-> m], <<r>>,
            GetMember(session, n, m, r))

DsDeleteMember ==
    \E n \in DatasetNames, m \in MemberNames, r \in CommandReplies :
        Ran("DeleteMember", [name |-> n, member |-> m], <<r>>,
            DeleteMember(session, n, m, r))

DsCopyDataset ==
    \E n \in DatasetNames, t \in DatasetNames, r \in CommandReplies :
        Ran("CopyDataset", [source |-> n, target |-> t], <<r>>,
            CopyDataset(session, n, t, r))

DsRenameDataset ==
    \E n \in DatasetNames, t \in DatasetNames, r \in CommandReplies :
        Ran("RenameDataset", [source |-> n, target |-> t], <<r>>,
            RenameDataset(session, n, t, r))

NextDatasets ==
    \/ DsListDatasets \/ DsCreateDataset \/ DsDeleteDataset
    \/ DsUploadContent \/ DsDownloadContent
    \/ DsListMembers \/ DsGetMember \/ DsDeleteMember
    \/ DsCopyDataset \/ DsRenameDataset

SpecDatasets == InitDatasets /\ [][NextDatasets]_vars

-----------------------------------------------------------------------------
(* The validation model: each validator applied to each input *)

\* the characters names are made of: a letter, a digit, a national character,
\* the period, the hyphen, a lower-case letter and a non-ASCII letter
NameAlphabet == {"A", "9", "@", ".", "-", "a", "é"}

\* every name of up to MaxNameLen characters
ShortNames == UNION {[1..n -> NameAlphabet] : n \in 0..MaxNameLen}

Pad(k) == [i \in 1..k |-> "A"]

\* the short names extended with letters to the two length limits and one more
LongNames ==
    UNION { {Pad(l - Len(n)) \o n, n \o Pad(l - Len(n))} :
              n \in ShortNames,
              l \in {MaxMemberNameLen, MaxMemberNameLen + 1,
                     MaxDatasetNameLen, MaxDatasetNameLen + 1} }

ValidatedNames == ShortNames \cup LongNames

\* the create requests: a good and a bad value of every field, the limits of
\* the numeric ones and the values next to them
CreateRequests ==
    [isNil : {FALSE},
     Name : {<<"I", "B", "M", ".", "A">>, <<"i", "b", "m">>},
     Type : {"SEQ", "PO", "PDSE", "VSAM", "BAD"},
     Volume : {<<>>},
     Space : [Primary : {-1, 0, 10}, Secondary : {-1, 0, 5},
              Unit : {"TRK", "GB", "BAD"}, Directory : {0}],
     RecordFormat : {"", "V", "X"},
     RecordLength : {-1, 0, 1, 32760, 32761},
     BlockSize : {-1, 0, 27920, 32761},
     Directory : {-1, 0, 5, 9999, 10000}]

NilCreateRequest ==
    [isNil |-> TRUE, Name |-> <<>>, Type |-> "", Volume |-> <<>>,
     Space |-> [Primary |-> 0, Secondary |-> 0, Unit |-> "", Directory |-> 0],
     RecordFormat |-> "", RecordLength |-> 0, BlockSize |-> 0, Directory |-> 0]

Input(args) == [op |-> "input", args |-> args, reqs |-> <<>>, resps |-> <<>>,
                result |-> Ok("none")]

InitValidate ==
    /\ profile = OpProfile
    /\ session = NoSession
    /\ last \in {Input([name |-> n]) : n \in ValidatedNames}
              \cup {Input([request |-> q]) :
                       q \in CreateRequests \cup {NilCreateRequest}}
    /\ calls = 0
    /\ pc = "input"
    /\ now = 0
    /\ wait = NoWait
    /\ server = NoServer
    /\ config = NoConfig
    /\ idle = 0

\* a validator ran on the input: the error it returned is kept
Validated(op, err) ==
    /\ pc = "input"
    /\ pc' = "validated"
    /\ last' = [last EXCEPT !.op = op,
                            !.result = IF err = NoError THEN Ok("valid")
                                       ELSE Fail(err)]
    /\ UNCHANGED <<profile, session, calls, now, wait, server, config, idle>>

DoValidateDatasetName ==
    /\ "name" \in DOMAIN last.args
    /\ Validated("ValidateDatasetName", ValidateDatasetName(last.args.name))

DoValidateMemberName ==
    /\ "name" \in DOMAIN last.args
    /\ Validated("ValidateMemberName", ValidateMemberName(last.args.name))

DoValidateCreateDatasetRequest ==
    /\ "request" \in DOMAIN last.args
    /\ Validated("ValidateCreateDatasetRequest",
                 ValidateCreateDatasetRequest(last.args.request))

NextValidate ==
    \/ DoValidateDatasetName \/ DoValidateMemberName
    \/ DoValidateCreateDatasetRequest

SpecValidate == InitValidate /\ [][NextValidate]_vars

-----------------------------------------------------------------------------
(* The content model: uploads and downloads against a server that stores
   the body of a PUT under the request path and returns it on GET *)

\* the path of a request URL: the URL without its query
PathOf(url) ==
    LET paths == {session.BaseURL \o ContentPath(n, m) :
                     n \in DatasetNames, m \in MemberNames}
        hits == {p \in paths :
                   \/ url = p
                   \/ \E c \in Encodings \ {<<>>} :
                         url = WithQuery(p, <<(<<"encoding", c>>)>>)}
    IN  IF hits = {} THEN url ELSE CHOOSE p \in hits : TRUE

Stored(srv, path) == {e \in srv : e[1] = path}

\* the server's answer to a request
ServerReply(srv, req) ==
    LET path == PathOf(req.url)
    IN  IF req.method = "PUT"
        THEN Reply(IF Stored(srv, path) = {} THEN 201 ELSE 204, TextBody(""))
        ELSE IF req.method = "GET" /\ Stored(srv, path) # {}
        THEN Reply(200, TextBody((CHOOSE e \in Stored(srv, path) : TRUE)[2]))
        ELSE Reply(404, ErrorText)

\* what the server holds after the request
ServerAfter(srv, req) ==
    IF req.method = "PUT"
    THEN (srv \ Stored(srv, PathOf(req.url)))
         \cup {<<PathOf(req.url), req.body.text>>}
    ELSE srv

\* an operation ran against the server: the request it builds does not
\* depend on the response, which is the server's answer to that request
RanOnServer(op, args, Operation(_)) ==
    LET sent == Operation(TransportFailure).reqs[1]
        r == ServerReply(server, sent)
        out == Operation(r)
    IN  /\ calls + 1 <= MaxCalls
        /\ last' = [op |-> op, args |-> args, reqs |-> out.reqs,
                    resps |-> <<r>>, result |-> out.result]
        /\ calls' = calls + 1
        /\ server' = ServerAfter(server, sent)
        /\ idle' = IdleAfter(idle, <<r>>)
        /\ UNCHANGED <<profile, session, pc, now, wait, config>>

StoreUpload ==
    \E n \in DatasetNames, m \in MemberNames, c \in Contents :
        LET q == [isNil |-> FALSE, DatasetName |-> n, MemberName |-> m,
                  Content |-> c]
            Operation(r) == UploadContent(session, q, r)
        IN  RanOnServer("UploadContent", [request |-> q], Operation)

StoreDownload ==
    \E n \in DatasetNames, m \in MemberNames, c \in Encodings :
        LET q == [isNil |-> FALSE, DatasetName |-> n, MemberName |-> m,
                  Encoding |-> c]
            Operation(r) == DownloadContent(session, q, r)
        IN  RanOnServer("DownloadContent", [request |-> q], Operation)

NextContent == StoreUpload \/ StoreDownload

SpecContent == InitDatasets /\ [][NextContent]_vars

-----------------------------------------------------------------------------
(* The header model: header changes on a session between the operations of
   the managers bound to it, each operation with one set of arguments *)

\* the profile of the operation model and one that switches verification off
HeaderProfiles ==
    { OpProfile,
      [OpProfile EXCEPT !.Host = "localhost", !.Port = 8080,
                        !.RejectUnauthorized = FALSE, !.BasePath = ""] }

InitHeaders ==
    /\ profile \in HeaderProfiles
    /\ session = NewSession(profile)
    /\ last = NoOp
    /\ calls = 0
    /\ pc = "idle"
    /\ now = 0
    /\ wait = NoWait
    /\ server = NoServer
    /\ config = NoConfig
    /\ idle = 0

\* a call that sends nothing: it is kept as the last operation
Called(op, args) ==
    /\ last' = [op |-> op, args |-> args, reqs |-> <<>>, resps |-> <<>>,
                result |-> Ok("done")]
    /\ UNCHANGED <<profile, calls, pc, now, wait, server, config, idle>>

\* the keys of the session model and a lower-case spelling of one of them
SpelledKeys == HeaderKeys \cup {"content-type"}

\* the session as the header loop of an operation sees it, for every order
\* of the range over its header map
Ranged(s) == {[s EXCEPT !.Headers = m] : m \in RangeHeaders(s.Headers)}

HdrAddHeader ==
    \E k \in SpelledKeys, v \in HeaderValues :
        /\ session' = AddHeader(session, k, v)
        /\ Called("AddHeader", [key |-> k, value |-> v])

HdrRemoveHeader ==
    \E k \in SpelledKeys :
        /\ session' = RemoveHeader(session, k)
        /\ Called("RemoveHeader", [key |-> k])

HdrJobCall ==
  \E s \in Ranged(session) :
    LET id == <<"J", "1">>
        job == Reply(200, JobBody)
        none == Reply(204, TextBody(""))
        q == [JobStatement |-> "//J JOB", JobDataSet |-> "", JobLocalFile |-> "",
              Volume |-> "", Directory |-> "", Extension |-> ""]
    IN  \/ Ran("ListJobs", [filter |-> NilFilter], <<Reply(200, ArrayBody(<<>>))>>,
               ListJobs(s, NilFilter, Reply(200, ArrayBody(<<>>))))
        \/ Ran("GetJob", [id |-> id], <<job>>, GetJob(s, id, job))
        \/ Ran("GetJobByNameID", [name |-> <<"T">>, id |-> id], <<job>>,
               GetJobByNameID(s, <<"T">>, id, job))
        \/ Ran("GetJobByCorrelator", [id |-> id], <<job>>,
               GetJobByCorrelator(s, id, job))
        \/ Ran("GetJobStatus", [id |-> id], <<job>>, GetJobStatus(s, id, job))
        \/ Ran("GetJobInfo", [id |-> id], <<job>>, GetJobInfo(s, id, job))
        \/ Ran("GetSpoolFiles", [id |-> id], <<Reply(200, ArrayBody(<<>>))>>,
               GetSpoolFiles(s, id, Reply(200, ArrayBody(<<>>))))
        \/ Ran("GetSpoolFileContent", [id |-> id, spoolID |-> 1],
               <<Reply(200, TextBody("HELLO"))>>,
               GetSpoolFileContent(s, id, 1, Reply(200, TextBody("HELLO"))))
        \/ Ran("SubmitJob", [request |-> q], <<Reply(201, JobBody)>>,
               SubmitJob(s, q, Reply(201, JobBody)))
        \/ Ran("CancelJob", [id |-> id], <<none>>, CancelJob(s, id, none))
        \/ Ran("DeleteJob", [id |-> id], <<none>>, DeleteJob(s, id, none))
        \/ Ran("PurgeJob", [id |-> id], <<none>>, PurgeJob(s, id, none))

HdrDatasetCall ==
  \E s \in Ranged(session) :
    LET n == <<"I", "B", "M", ".", "A">>
        m == <<"M", "1">>
        done == Reply(201, TextBody(""))
        none == Reply(204, TextBody(""))
        failed == Reply(500, ErrorText)
        list == Reply(200, ListBody("datasets", <<Dataset1>>))
        members == Reply(200, ListBody("members", <<>>))
        up == [isNil |-> FALSE, DatasetName |-> n, MemberName |-> m,
               Content |-> "hello"]
        down == [isNil |-> FALSE, DatasetName |-> n, MemberName |-> m,
                 Encoding |-> <<>>]
    IN  \/ \E f \in {NilDatasetFilter, [NilDatasetFilter EXCEPT !.isNil = FALSE,
                                                               !.Limit = 5]} :
              Ran("ListDatasets", [filter |-> f], <<list>>,
                  ListDatasets(s, f, list))
        \/ Ran("GetDataset", [name |-> n], <<list>>, GetDataset(s, n, list))
        \/ \E r \in {failed, Reply(200, DatasetBody)} :
              Ran("GetDatasetInfo", [name |-> n], <<r, list>>,
                  GetDatasetInfo(s, n, r, list))
        \/ Ran("CreateDataset", [request |-> CreatePartitioned(n)], <<done>>,
               CreateDataset(s, CreatePartitioned(n), done))
        \/ Ran("DeleteDataset", [name |-> n], <<none>>,
               DeleteDataset(s, n, none))
        \/ Ran("UploadContent", [request |-> up], <<done>>,
               UploadContent(s, up, done))
        \/ Ran("DownloadContent", [request |-> down],
               <<Reply(200, TextBody("hello"))>>,
               DownloadContent(s, down, Reply(200, TextBody("hello"))))
        \/ Ran("ListMembers", [name |-> n], <<members>>,
               ListMembers(s, n, members))
        \/ Ran("GetMember", [name |-> n, member |-> m], <<members>>,
               GetMember(s, n, m, members))
        \/ Ran("DeleteMember", [name |-> n, member |-> m], <<none>>,
               DeleteMember(s, n, m, none))
        \/ Ran("CopyDataset", [source |-> n, target |-> m], <<done>>,
               CopyDataset(s, n, m, done))
        \/ Ran("RenameDataset", [source |-> n, target |-> m], <<done>>,
               RenameDataset(s, n, m, done))

NextHeaders ==
    HdrAddHeader \/ HdrRemoveHeader \/ HdrJobCall \/ HdrDatasetCall

SpecHeaders == InitHeaders /\ [][NextHeaders]_vars

-----------------------------------------------------------------------------
(* The close model: the header model with CloseJobManager and
   CloseDatasetManager called between the operations on the session *)

\* a Close call returned
CloseReturned(op, closed) ==
    /\ last' = [op |-> op, args |-> <<>>, reqs |-> <<>>, resps |-> <<>>,
                result |-> closed.result]
    /\ session' = closed.session
    /\ idle' = closed.idle
    /\ UNCHANGED <<profile, calls, pc, now, wait, server, config>>

ClCloseJobManager ==
    CloseReturned("CloseJobManager", CloseJobManager(session, idle))

ClCloseDatasetManager ==
    CloseReturned("CloseDatasetManager", CloseDatasetManager(session, idle))

NextClose ==
    \/ ClCloseJobManager
    \/ ClCloseDatasetManager
    \/ HdrAddHeader
    \/ HdrRemoveHeader
    \/ HdrJobCall
    \/ HdrDatasetCall

SpecClose == InitHeaders /\ [][NextClose]_vars

-----------------------------------------------------------------------------
(* The output model: GetJobOutput on jobs with up to MaxSpoolFiles spool
   files, every request answered by a failure or a success *)

\* the i-th spool file of a job
SpoolFileOf(i) == [ID |-> i, DDName |-> "DD" \o Itoa(i)]

SpoolFileLists == {[i \in 1..k |-> SpoolFileOf(i)] : k \in 0..MaxSpoolFiles}

\* what the transport may answer to the request for the spool files
SpoolFileReplies ==
    {TransportFailure, Reply(404, ErrorText)}
    \cup {Reply(200, ArrayBody(files)) : files \in SpoolFileLists}

\* what the transport may answer to the request for the content of one file
SpoolContentReplies ==
    {TransportFailure, Reply(500, ErrorText), Reply(200, TextBody("HELLO")),
     CutReply(200, TextBody("HELLO"))}

\* requests the transport accepts in the output model
MaxOutputCalls == MaxCalls * (1 + MaxSpoolFiles)

OutGetJobOutput ==
    \E first \in SpoolFileReplies,
       rest \in [1..MaxSpoolFiles -> SpoolContentReplies] :
        LET correlator == <<"J", "1">>
            resps == <<first>> \o rest
            out == GetJobOutput(session, correlator, resps)
            used == SubSeq(resps, 1, Len(out.reqs))
        IN  /\ calls + Len(out.reqs) <= MaxOutputCalls
            /\ last' = [op |-> "GetJobOutput", args |-> [correlator |-> correlator],
                        reqs |-> out.reqs, resps |-> used, result |-> out.result]
            /\ calls' = calls + Len(out.reqs)
            /\ idle' = IdleAfter(idle, used)
            /\ UNCHANGED <<profile, session, pc, now, wait, server, config>>

NextOutput == OutGetJobOutput

SpecOutput == InitHeaders /\ [][NextOutput]_vars

-----------------------------------------------------------------------------
(* The profile model: profiles read from the configuration file or made by
   the helpers, and the sessions derived from them *)

ProfileNames == {"p", "q"}

\* what the file holds under the keys of a profile: each key absent, of the
\* type GetZOSMFProfile asserts, or of another type
HostData == {<<>>, [host |-> JString("zos.example.com")], [host |-> JNull]}
PortData == {<<>>, [port |-> JNumber(10443)], [port |-> JString("443")]}
RejectUnauthorizedData ==
    {<<>>} \cup
    {[rejectUnauthorized |-> v] :
        v \in {JBool(TRUE), JBool(FALSE), JString("false"), JNumber(0), JNull}}
Credentials ==
    [user |-> JString(<<"I", "B", "M">>), password |-> JString("pass")]

\* the profile data of one name: a JSON object, or some other JSON value
ProfileData ==
    {[kind |-> "object", fields |-> h @@ p @@ r @@ Credentials] :
        h \in HostData, p \in PortData, r \in RejectUnauthorizedData}
    \cup {[kind |-> k, fields |-> <<>>] : k \in {"null", "string"}}

\* the configuration files: none, one that does not parse, one without the
\* zosmf category, and one with the profile p
Configs ==
    {NoConfig, [exists |-> TRUE, parses |-> FALSE]}
    \cup {[exists |-> TRUE, parses |-> TRUE, profiles |-> <<>>,
           default |-> <<>>, other |-> {}]}
    \cup {[exists |-> TRUE, parses |-> TRUE,
           profiles |-> [zosmf |-> [p |-> d]], default |-> [zosmf |-> "p"],
           other |-> {}] :
              d \in ProfileData}

InitProfiles ==
    /\ profile = ZeroProfile
    /\ session = NoSession
    /\ last = NoOp
    /\ calls = 0
    /\ pc = "idle"
    /\ now = 0
    /\ wait = NoWait
    /\ server = NoServer
    /\ config \in Configs
    /\ idle = 0

\* a call of the profile package returned: it sends nothing
Returned(op, args, result) ==
    /\ last' = [op |-> op, args |-> args, reqs |-> <<>>, resps |-> <<>>,
                result |-> result]
    /\ UNCHANGED <<calls, pc, now, wait, server, config, idle>>

PmGetZOSMFProfile ==
    \E name \in ProfileNames :
        LET got == GetZOSMFProfile(config, name)
        IN  /\ profile' = IF got.ok THEN got.value ELSE profile
            /\ UNCHANGED session
            /\ Returned("GetZOSMFProfile", [name |-> name], got)

PmCreateSession ==
    \E name \in ProfileNames :
        LET made == CreateSession(config, name)
        IN  /\ profile' = IF made.ok THEN made.value.Profile ELSE profile
            /\ session' = IF made.ok THEN made.value ELSE session
            /\ Returned("CreateSession", [profileName |-> name], made)

PmCreateZOSMFProfile ==
    \E host \in Hosts, port \in {443, 8080} :
        LET p == CreateZOSMFProfile("p", host, port, <<"I", "B", "M">>, "pass")
        IN  /\ profile' = p
            /\ UNCHANGED session
            /\ Returned("CreateZOSMFProfile", [host |-> host, port |-> port],
                        Ok(p))

PmCreateZOSMFProfileWithOptions ==
    \E host \in Hosts, rejectUnauthorized \in BOOLEAN :
        LET p == CreateZOSMFProfileWithOptions("p", host, 443,
                     <<"I", "B", "M">>, "pass", rejectUnauthorized, "/api/v1")
        IN  /\ profile' = p
            /\ UNCHANGED session
            /\ Returned("CreateZOSMFProfileWithOptions",
                        [host |-> host,
                         rejectUnauthorized |-> rejectUnauthorized], Ok(p))

PmNewSession ==
    /\ session' = NewSession(profile)
    /\ UNCHANGED profile
    /\ Returned("NewSession", <<>>, Ok(NewSession(profile)))

PmCreateSessionDirect ==
    \E host \in Hosts, port \in {443, 8080} :
        LET s == CreateSessionDirect(host, port, <<"I", "B", "M">>, "pass")
        IN  /\ session' = s
            /\ profile' = s.Profile
            /\ Returned("CreateSessionDirect", [host |-> host, port |-> port],
                        Ok(s))

PmCreateSessionDirectWithOptions ==
    \E host \in Hosts, rejectUnauthorized \in BOOLEAN :
        LET s == CreateSessionDirectWithOptions(host, 443, <<"I", "B", "M">>,
                     "pass", rejectUnauthorized, "/api/v1")
        IN  /\ session' = s
            /\ profile' = s.Profile
            /\ Returned("CreateSessionDirectWithOptions",
                        [host |-> host,
                         rejectUnauthorized |-> rejectUnauthorized], Ok(s))

\* the profiles ValidateProfile is called with, besides the current one:
\* each required field empty or set, the port around zero
ValidatedProfiles ==
    {[ZeroProfile EXCEPT !.Host = h, !.Port = n, !.User = u, !.Password = w] :
        h \in {"", "localhost"}, n \in {-1, 0, 1},
        u \in {<<>>, <<"I", "B", "M">>}, w \in {"", "pass"}}

PmValidateProfile ==
    \E p \in {profile} \cup ValidatedProfiles :
        /\ UNCHANGED <<profile, session>>
        /\ Returned("ValidateProfile", [profile |-> p], ValidateProfile(p))

NextProfiles ==
    \/ PmGetZOSMFProfile
    \/ PmCreateSession
    \/ PmCreateZOSMFProfile
    \/ PmCreateZOSMFProfileWithOptions
    \/ PmNewSession
    \/ PmCreateSessionDirect
    \/ PmCreateSessionDirectWithOptions
    \/ PmValidateProfile

SpecProfiles == InitProfiles /\ [][NextProfiles]_vars

-----------------------------------------------------------------------------
(* The configuration model: the profile manager's operations on one
   configuration file, which SaveZOSMFProfile and DeleteZOSMFProfile rewrite *)

\* a profile of another category, which the manager never reads
TsoData == [kind |-> "object", fields |-> [account |-> JString("ACCT")]]

\* the profile data the file holds under q before the manager writes to it
StoredData ==
    [kind |-> "object",
     fields |-> [host |-> JString("zos.example.com")] @@ Credentials]

\* the files the manager starts on: none, one that does not parse, and
\* documents with another category, a default mapping and a top-level key
\* besides profiles and default, without and with the zosmf category
StartConfigs ==
    { NoConfig,
      [exists |-> TRUE, parses |-> FALSE],
      [exists |-> TRUE, parses |-> TRUE, profiles |-> [tso |-> [t |-> TsoData]],
       default |-> [tso |-> "t"], other |-> {"$schema"}],
      [exists |-> TRUE, parses |-> TRUE,
       profiles |-> [zosmf |-> [q |-> StoredData], tso |-> [t |-> TsoData]],
       default |-> [zosmf |-> "q", tso |-> "t"], other |-> {"$schema"}] }

\* the profiles SaveZOSMFProfile is called with
SavedProfiles ==
    {[ZeroProfile EXCEPT !.Name = n, !.Host = "zos.example.com", !.Port = 443,
          !.User = <<"I", "B", "M">>, !.Password = "pass",
          !.RejectUnauthorized = TRUE, !.BasePath = "/api/v1"] :
        n \in ProfileNames}
    \cup
    {[ZeroProfile EXCEPT !.Name = n, !.Host = "localhost", !.Port = 8080,
          !.User = <<"I", "B", "M">>, !.Password = "pass",
          !.Protocol = "http"] :
        n \in ProfileNames}
    \cup
    {[ZeroProfile EXCEPT !.Name = n, !.Host = "zos.example.com",
          !.Port = 10443, !.User = <<"I", "B", "M">>, !.Password = ""] :
        n \in ProfileNames}

InitConfig ==
    /\ profile = ZeroProfile
    /\ session = NoSession
    /\ last = NoOp
    /\ calls = 0
    /\ pc = "idle"
    /\ now = 0
    /\ wait = NoWait
    /\ server = NoServer
    /\ config \in StartConfigs
    /\ idle = 0

\* a call of the profile manager returned, the file is as the call left it
Managed(op, args, result, cfg) ==
    /\ last' = [op |-> op, args |-> args, reqs |-> <<>>, resps |-> <<>>,
                result |-> result]
    /\ config' = cfg
    /\ UNCHANGED <<profile, session, calls, pc, now, wait, server, idle>>

CfgGetZOSMFProfile ==
    \E name \in ProfileNames :
        Managed("GetZOSMFProfile", [name |-> name],
                GetZOSMFProfile(config, name), config)

CfgListZOSMFProfiles ==
    \E listed \in ListZOSMFProfiles(config) :
        Managed("ListZOSMFProfiles", <<>>, listed, config)

CfgSaveZOSMFProfile ==
    \E p \in SavedProfiles :
        LET wrote == SaveZOSMFProfile(config, p)
        IN  Managed("SaveZOSMFProfile", [profile |-> p], wrote.result,
                    wrote.config)

CfgDeleteZOSMFProfile ==
    \E name \in ProfileNames :
        LET wrote == DeleteZOSMFProfile(config, name)
        IN  Managed("DeleteZOSMFProfile", [name |-> name], wrote.result,
                    wrote.config)

CfgGetDefaultZOSMFProfile ==
    Managed("GetDefaultZOSMFProfile", <<>>, GetDefaultZOSMFProfile(config),
            config)

NextConfig ==
    \/ CfgGetZOSMFProfile
    \/ CfgListZOSMFProfiles
    \/ CfgSaveZOSMFProfile
    \/ CfgDeleteZOSMFProfile
    \/ CfgGetDefaultZOSMFProfile

SpecConfig == InitConfig /\ [][NextConfig]_vars

-----------------------------------------------------------------------------
(* The store model: the same operations, starting without a file *)

InitStore ==
    /\ InitConfig
    /\ config = NoConfig

SpecStore == InitStore /\ [][NextConfig]_vars

-----------------------------------------------------------------------------
(* Claims about NewSession, checked under SpecSession *)

C1_Scheme(p) ==
    IF p.Port = 80 \/ p.Port = 8080 THEN "http"
    ELSE IF p.Protocol # "" THEN p.Protocol
    ELSE "https"

C1_PortPart(p) ==
    IF p.Port # 0 /\ p.Port # 80 /\ p.Port # 443
    THEN ":" \o Itoa(p.Port) ELSE ""

(* C1: for every profile, the session NewSession builds has                *)
(* BaseURL = scheme + "://" + host + portPart + basePath, where scheme is  *)
(* "http" whenever the port is 80 or 8080 (whatever the explicit           *)
(* protocol), otherwise the explicit protocol, or "https" when none is     *)
(* set; portPart is ":" + port exactly when the port is not 0, 80 or 443;  *)
(* basePath is appended verbatim. Three profiles are spelled out.          *)
C1_BaseURL ==
    session.made =>
        /\ session.BaseURL =
              C1_Scheme(profile) \o "://" \o profile.Host
                \o C1_PortPart(profile) \o profile.BasePath
        /\ (profile.Host = "localhost" /\ profile.Port = 8080
              /\ profile.BasePath = "/api/v1")
              => session.BaseURL = "http://localhost:8080/api/v1"
        /\ (profile.Host = "localhost" /\ profile.Port = 443
              /\ profile.Protocol = "" /\ profile.BasePath = "zosmf/")
              => session.BaseURL = "https://localhostzosmf/"
        /\ (profile.Host = "zos.example.com" /\ profile.Port = 10443
              /\ profile.Protocol = "http" /\ profile.BasePath = "")
              => session.BaseURL = "http://zos.example.com:10443"

\* a session was built from a profile with port 8080 and protocol "https"
C1_Witness ==
    /\ session.made
    /\ profile.Port = 8080
    /\ profile.Protocol = "https"
    /\ profile.Host = "localhost"
    /\ profile.BasePath = "/api/v1"
    /\ session.BaseURL = "http://localhost:8080/api/v1"

-----------------------------------------------------------------------------
(* Claims about the managers' operations, checked under Spec *)

ManagerOps ==
    { "ListJobs", "GetJob", "GetJobByNameID", "GetJobByCorrelator",
      "GetJobStatus", "GetJobInfo", "GetSpoolFiles", "GetSpoolFileContent",
      "SubmitJob", "CancelJob", "DeleteJob", "PurgeJob",
      "ListDatasets", "GetDataset", "GetDatasetInfo", "DeleteDataset" }

(* C2: every HTTP request a job or dataset manager operation issues        *)
(* through a session built from a profile carries an Authorization header  *)
(* (credentials derived from the profile's user and password).             *)
C2_RequestsAuthenticated ==
    last.op \in ManagerOps =>
        \A i \in 1..Len(last.reqs) :
            "Authorization" \in DOMAIN last.reqs[i].headers

\* ListJobs(nil) on the session of a profile with user and password sent a
\* request whose headers are the session's two default headers only
C2_Unauthenticated ==
    /\ last.op = "ListJobs"
    /\ last.args.filter = NilFilter
    /\ session.User = <<"I", "B", "M">>
    /\ session.Password = "pass"
    /\ Len(last.reqs) = 1
    /\ DOMAIN last.reqs[1].headers = {"Content-Type", "Accept"}

C3_NoSource(q) ==
    q.JobStatement = "" /\ q.JobDataSet = "" /\ q.JobLocalFile = ""

C3_NoSourceError ==
    PlainError("no job source specified (jobStatement, jobDataSet, or jobLocalFile)")

(* C3: SubmitJob called with none of jobStatement, jobDataSet and          *)
(* jobLocalFile set returns the validation error and issues no HTTP        *)
(* request: the operation's list of requests is empty, and the step that   *)
(* runs it leaves the count of requests sent to the transport unchanged.   *)
C3_NoSourceNoRequest ==
    /\ [](last.op = "SubmitJob" /\ C3_NoSource(last.args.request)
            => /\ ~last.result.ok
               /\ last.result.err = C3_NoSourceError
               /\ last.reqs = <<>>
               /\ last.resps = <<>>)
    /\ [][last'.op = "SubmitJob" /\ C3_NoSource(last'.args.request)
            => calls' = calls]_vars

\* SubmitJob ran without a source while no request had been sent yet
C3_Witness ==
    /\ last.op = "SubmitJob"
    /\ C3_NoSource(last.args.request)
    /\ last.args.request.Volume = "VOL001"
    /\ ~last.result.ok
    /\ last.reqs = <<>>
    /\ calls = 0

C4_Sources(q) ==
    (IF q.JobStatement # "" THEN {"jobStatement"} ELSE {})
    \cup (IF q.JobDataSet # "" THEN {"jobDataSet"} ELSE {})
    \cup (IF q.JobLocalFile # "" THEN {"jobLocalFile"} ELSE {})

C4_OwnFields(source) ==
    CASE source = "jobStatement" -> {"jobStatement"}
      [] source = "jobDataSet"   -> {"jobDataSet", "volume"}
      [] source = "jobLocalFile" -> {"jobLocalFile", "directory", "extension"}

(* C4: SubmitJob accepts a request only when exactly one of jobStatement,  *)
(* jobDataSet and jobLocalFile is set: with two or three sources set it    *)
(* returns an error and issues no HTTP request, and the body of an         *)
(* accepted request holds only the chosen source and its own options.      *)
C4_ExactlyOneSource ==
    last.op = "SubmitJob" =>
        LET q == last.args.request
        IN  /\ Cardinality(C4_Sources(q)) >= 2
                => ~last.result.ok /\ last.reqs = <<>>
            /\ last.reqs # <<>>
                => \E src \in C4_Sources(q) :
                      /\ C4_Sources(q) = {src}
                      /\ src \in DOMAIN last.reqs[1].body.fields
                      /\ DOMAIN last.reqs[1].body.fields \subseteq C4_OwnFields(src)

\* SubmitJob ran with jobStatement and jobDataSet both set: the request went
\* out with the jobStatement alone and the job was submitted
C4_TwoSourcesAccepted ==
    /\ last.op = "SubmitJob"
    /\ C4_Sources(last.args.request) = {"jobStatement", "jobDataSet"}
    /\ Len(last.reqs) = 1
    /\ DOMAIN last.reqs[1].body.fields = {"jobStatement"}
    /\ last.resps = <<Reply(201, JobBody)>>
    /\ last.result.ok

(* C8: for every list of jobs L, the empty list included, a 200 response   *)
(* whose body is an object with a jobs field holding L and a 200 response  *)
(* whose body is the bare array L both make ListJobs return success with   *)
(* a JobList whose Jobs equal L.                                           *)
C8_BothShapesDecode ==
    \A L \in JobLists :
        (/\ last.op = "ListJobs"
         /\ last.resps \in { <<Reply(200, ListBody("jobs", L))>>,
                             <<Reply(200, ArrayBody(L))>> })
            => last.result.ok /\ last.result.value.Jobs = L

\* ListJobs got 200 with the object whose jobs field holds the empty list
\* and returned the decode error
C8_EmptyJobsObjectRejected ==
    /\ last.op = "ListJobs"
    /\ last.resps = <<Reply(200, ListBody("jobs", <<>>))>>
    /\ ~last.result.ok
    /\ last.result.err.msg = "failed to decode response: %s"

C9_SuccessSet(op) ==
    CASE op = "SubmitJob" -> {200, 201, 202}
      [] op \in {"CancelJob", "DeleteJob", "PurgeJob", "DeleteDataset"} -> {200, 204}
      [] OTHER -> {200}

(* C9: for every manager operation, when a response whose body arrived     *)
(* whole has a status outside the operation's success set, the operation   *)
(* returns an error that holds that numeric status and that complete raw   *)
(* body.                                                                   *)
C9_ErrorCarriesStatusAndBody ==
    last.op \in ManagerOps =>
        \A i \in 1..Len(last.resps) :
            LET r == last.resps[i]
            IN  (~r.err /\ r.readOK /\ r.status \notin C9_SuccessSet(last.op))
                    => /\ ~last.result.ok
                       /\ last.result.err.hasStatus
                       /\ last.result.err.status = r.status
                       /\ last.result.err.hasBody
                       /\ last.result.err.body = r.body

\* GetDatasetInfo got 500 with a body for its direct request, fell back to
\* the listing and returned the dataset: no error at all
C9_FailureDiscarded ==
    /\ last.op = "GetDatasetInfo"
    /\ last.args.name = <<"I", "B", "M", ".", "A">>
    /\ last.resps = << Reply(500, ErrorText),
                       Reply(200, ListBody("datasets", <<Dataset2, Dataset1>>)) >>
    /\ Len(last.reqs) = 2
    /\ last.result.ok
    /\ last.result.value = Dataset1

(* C10: GetJob, GetJobByNameID and GetJobByCorrelator return a job only on *)
(* status 200; SubmitJob returns a response only on 200, 201 or 202;       *)
(* CancelJob, PurgeJob and DeleteJob return success exactly on 200 or 204; *)
(* every other status yields an error holding that status, not a result.   *)
C10_StatusSets ==
    (last.op \in ManagerOps /\ Len(last.resps) = 1 /\ ~last.resps[1].err) =>
        LET st == last.resps[1].status
        IN  /\ last.op \in {"GetJob", "GetJobByNameID", "GetJobByCorrelator"}
                => /\ last.result.ok => st = 200
                   /\ st # 200 => /\ ~last.result.ok
                                  /\ last.result.err.hasStatus
                                  /\ last.result.err.status = st
            /\ last.op = "SubmitJob"
                => /\ last.result.ok => st \in {200, 201, 202}
                   /\ st \notin {200, 201, 202}
                        => /\ ~last.result.ok
                           /\ last.result.err.hasStatus
                           /\ last.result.err.status = st
            /\ last.op \in {"CancelJob", "PurgeJob", "DeleteJob"}
                => /\ last.result.ok <=> st \in {200, 204}
                   /\ ~last.result.ok
                        => /\ last.result.err.hasStatus
                           /\ last.result.err.status = st

\* GetJob got 201 with a well-formed job and returned the status error
C10_Witness ==
    /\ last.op = "GetJob"
    /\ last.resps = <<Reply(201, JobBody)>>
    /\ ~last.result.ok
    /\ last.result.err.status = 201

-----------------------------------------------------------------------------
(* Claims about WaitForJobCompletion, checked under SpecWait *)

(* C5: the elapsed time is compared with the timeout before every status   *)
(* poll: every poll directly follows a comparison that saw elapsed <=      *)
(* timeout; a comparison that saw elapsed > timeout ends the wait with the *)
(* timeout error and nothing follows it; a comparison that saw elapsed <=  *)
(* timeout (elapsed = timeout included) goes on to the poll; and the       *)
(* timeout error is returned only straight after such a comparison, never  *)
(* after the poll of the same iteration.                                   *)
C5_TimeoutBeforeEveryPoll ==
    LET T == wait.trace
    IN  /\ \A i \in 1..Len(T) :
              T[i].ev = "poll"
                  => /\ i > 1
                     /\ T[i - 1].ev = "check"
                     /\ T[i - 1].elapsed <= wait.timeout
        /\ \A i \in 1..Len(T) :
              (T[i].ev = "check" /\ T[i].elapsed > wait.timeout)
                  => /\ i = Len(T)
                     /\ pc = "done"
                     /\ ~wait.result.ok
                     /\ wait.result.err = TimeoutError
        /\ \A i \in 1..Len(T) :
              (T[i].ev = "check" /\ T[i].elapsed <= wait.timeout)
                  => IF i = Len(T) THEN pc = "poll" ELSE T[i + 1].ev = "poll"
        /\ (pc = "done" /\ ~wait.result.ok /\ wait.result.err = TimeoutError)
              => /\ Len(T) > 0
                 /\ T[Len(T)].ev = "check"
                 /\ T[Len(T)].elapsed > wait.timeout

\* a wait polled after a comparison that saw elapsed = timeout, and timed out
\* at a later comparison
C5_Witness ==
    /\ pc = "done"
    /\ ~wait.result.ok
    /\ wait.result.err = TimeoutError
    /\ wait.timeout > 0
    /\ \E i \in 1..(Len(wait.trace) - 1) :
          /\ wait.trace[i].ev = "check"
          /\ wait.trace[i].elapsed = wait.timeout
          /\ wait.trace[i + 1].ev = "poll"

(* C6: the first failing GetJobStatus call (a transport error, a non-200   *)
(* response, an undecodable body) ends the wait: the wait returns an error *)
(* that wraps the call's error under "failed to get job status", and no    *)
(* poll and no sleep follows the failed call.                              *)
C6_FirstFailureEndsWait ==
    LET T == wait.trace
    IN  \A i \in 1..Len(T) :
            (T[i].ev = "poll" /\ ~T[i].ok)
                => /\ i = Len(T)
                   /\ pc = "done"
                   /\ ~wait.result.ok
                   /\ wait.result.err.wraps
                        = <<"failed to get job status">> \o T[i].err.wraps
                   /\ wait.result.err.msg = T[i].err.msg
                   /\ wait.result.err.hasStatus = T[i].err.hasStatus
                   /\ wait.result.err.status = T[i].err.status
                   /\ wait.result.err.body = T[i].err.body
                   /\ calls = Cardinality({j \in 1..Len(T) : T[j].ev = "poll"})

\* a wait whose second poll got a 404 ended with the wrapped status error
C6_Witness ==
    /\ pc = "done"
    /\ Len(wait.trace) = 5
    /\ wait.trace[2].ev = "poll" /\ wait.trace[2].ok
    /\ wait.trace[5].ev = "poll" /\ ~wait.trace[5].ok
    /\ ~wait.result.ok
    /\ wait.result.err.status = 404
    /\ wait.result.err.wraps = <<"failed to get job status">>

\* the statuses of the wait model that, upper-cased, contain one of OUTPUT,
\* CC 0000 .. CC 0004, ABEND, and those that contain none
C7_Complete == { OUTPUT, output, CC0000, CC0004, ABENDS0C4, abended }
C7_NotComplete == { ACTIVE, CC0008, <<>> }

(* C7: the wait returns (status, no error) exactly for the first polled    *)
(* status that, upper-cased, contains one of OUTPUT, CC 0000 .. CC 0004,   *)
(* ABEND: every status polled before it contained none of them, a sleep of *)
(* at least pollInterval happens only straight after a non-complete        *)
(* status, and a non-complete status is never returned but followed by the *)
(* sleep.                                                                  *)
C7_SuccessOnFirstComplete ==
    LET T == wait.trace
    IN  /\ \A i \in 1..Len(T) :
              (T[i].ev = "poll" /\ T[i].ok)
                  => T[i].status \in C7_Complete \cup C7_NotComplete
        /\ \A i \in 1..Len(T) :
              (T[i].ev = "poll" /\ T[i].ok /\ T[i].status \in C7_Complete)
                  => /\ i = Len(T)
                     /\ pc = "done"
                     /\ wait.result.ok
                     /\ wait.result.value = T[i].status
        /\ \A i \in 1..Len(T) :
              (T[i].ev = "poll" /\ T[i].ok /\ T[i].status \in C7_NotComplete)
                  => IF i = Len(T) THEN pc = "sleep" ELSE T[i + 1].ev = "sleep"
        /\ \A i \in 1..Len(T) :
              T[i].ev = "sleep"
                  => /\ i > 1
                     /\ T[i - 1].ev = "poll"
                     /\ T[i - 1].ok
                     /\ T[i - 1].status \in C7_NotComplete
                     /\ T[i].elapsed - T[i - 1].elapsed >= wait.pollInterval
        /\ (pc = "done" /\ wait.result.ok)
              => /\ Len(T) > 0
                 /\ T[Len(T)].ev = "poll"
                 /\ T[Len(T)].ok
                 /\ T[Len(T)].status \in C7_Complete
                 /\ wait.result.value = T[Len(T)].status

\* a wait polled CC 0008, slept, polled "abended" and returned it
C7_Witness ==
    /\ pc = "done"
    /\ wait.result.ok
    /\ wait.result.value = abended
    /\ Len(wait.trace) = 5
    /\ wait.trace[2].ev = "poll" /\ wait.trace[2].status = CC0008
    /\ wait.trace[3].ev = "sleep"
    /\ wait.pollInterval = 1

-----------------------------------------------------------------------------
(* Claims about the dataset manager, checked under SpecDatasets *)

\* the filter names neither a name pattern nor a volume
C11_NoRequiredParam(f) == f.isNil \/ (f.Name = <<>> /\ f.Volume = <<>>)

\* the dslevel and volser pairs the request has to carry for a filter
C11_Required(s, f) ==
    IF C11_NoRequiredParam(f)
    THEN [dslevel |-> <<s.User \o <<".", "*">> >>, volser |-> <<>>]
    ELSE [dslevel |-> IF f.Name # <<>> THEN <<f.Name>> ELSE <<>>,
          volser  |-> IF f.Volume # <<>> THEN <<f.Volume>> ELSE <<>>]

\* the values of one parameter in a list of pairs
C11_ValuesOf(pairs, key) ==
    LET idx == {i \in 1..Len(pairs) : pairs[i][1] = key}
    IN  IF idx = {} THEN <<>> ELSE <<pairs[CHOOSE i \in idx : TRUE][2]>>

\* C11: ListDatasets always sends dslevel or volser; with a nil filter or
\* one with Name and Volume empty the request carries dslevel = user + ".*",
\* otherwise dslevel and volser are exactly the filter's values, no default.
C11_DslevelOrVolser ==
    last.op = "ListDatasets" =>
        LET f == last.args.filter
            params == ListDatasetsParams(session, f)
            want == C11_Required(session, f)
        IN  /\ Len(last.reqs) = 1
            /\ last.reqs[1].url =
                   WithQuery(session.BaseURL \o DatasetsEndpoint, params)
            /\ C11_ValuesOf(params, "dslevel") = want.dslevel
            /\ C11_ValuesOf(params, "volser") = want.volser
            /\ Cardinality({i \in 1..Len(params) :
                               params[i][1] \in {"dslevel", "volser"}})
                   = Len(want.dslevel) + Len(want.volser)
            /\ want.dslevel # <<>> \/ want.volser # <<>>

\* ListDatasets ran with an empty, non-nil filter and sent the default pattern
C11_Witness ==
    /\ last.op = "ListDatasets"
    /\ ~last.args.filter.isNil
    /\ last.args.filter.Name = <<>> /\ last.args.filter.Volume = <<>>
    /\ last.reqs[1].url =
           session.BaseURL \o "/restfiles/ds?dslevel=IBM.%2A"


\* the dataset names and the member names an operation was called with
C14_DatasetNamesOf(l) ==
    CASE l.op \in {"CreateDataset"} -> {l.args.request.Name}
      [] l.op \in {"UploadContent", "DownloadContent"} ->
            {l.args.request.DatasetName}
      [] l.op \in {"DeleteDataset", "ListMembers", "GetMember", "DeleteMember"} ->
            {l.args.name}
      [] l.op \in {"CopyDataset", "RenameDataset"} ->
            {l.args.source, l.args.target}
      [] OTHER -> {}

C14_MemberNamesOf(l) ==
    CASE l.op \in {"UploadContent", "DownloadContent"} ->
            {l.args.request.MemberName} \ {<<>>}
      [] l.op \in {"GetMember", "DeleteMember"} -> {l.args.member}
      [] OTHER -> {}

\* one of the names breaks the naming rules
C14_InvalidName(l) ==
    \/ \E n \in C14_DatasetNamesOf(l) : ValidateDatasetName(n) # NoError
    \/ \E m \in C14_MemberNamesOf(l) : ValidateMemberName(m) # NoError

\* C14: name validation precedes the network: a dataset operation that
\* takes a dataset or member name and is called with a name that violates
\* the naming rules returns a validation error and issues no HTTP request.
C14_ValidationBeforeNetwork ==
    C14_InvalidName(last) =>
        /\ last.reqs = <<>>
        /\ ~last.result.ok
        /\ ~last.result.err.hasStatus
        /\ last.result.err # FailedToMakeRequest

\* CreateDataset with a name holding a lower-case letter and a slash sent its
\* request and succeeded
C14_InvalidNameSent ==
    /\ last.op = "CreateDataset"
    /\ last.args.request.Name = <<"a", "/", "b">>
    /\ Len(last.reqs) = 1
    /\ last.reqs[1].method = "POST"
    /\ last.reqs[1].url = session.BaseURL \o "/restfiles/ds/a%2Fb"
    /\ last.result.ok

\* the body {"request": kind, "from-dataset": {"dsn": source}}
C17_Body(kind, source) ==
    [kind |-> "json",
     fields |-> [k \in {"request", "from-dataset"} |->
                   IF k = "request" THEN kind ELSE [dsn |-> source]]]

\* C17: CopyDataset(source, target) and RenameDataset(old, new) each issue
\* exactly one request, a PUT to the dataset endpoint of the target or new
\* name, whose JSON body names the source or old dataset under
\* from-dataset.dsn with request = "copy" or "rename"; no request goes to
\* the source name and POST is never used.
C17_PutToTarget ==
    last.op \in {"CopyDataset", "RenameDataset"} =>
        /\ Len(last.reqs) = 1
        /\ last.reqs[1].method = "PUT"
        /\ last.reqs[1].url =
               session.BaseURL \o "/restfiles/ds/" \o PathEscape(last.args.target)
        /\ last.reqs[1].body =
               C17_Body(IF last.op = "CopyDataset" THEN "copy" ELSE "rename",
                        last.args.source)
        /\ (PathEscape(last.args.source) # PathEscape(last.args.target) =>
               last.reqs[1].url #
                   session.BaseURL \o "/restfiles/ds/" \o PathEscape(last.args.source))
        /\ \A i \in 1..Len(last.reqs) : last.reqs[i].method # "POST"

\* RenameDataset from a/b to IBM.A sent its one PUT to ds/IBM.A
C17_Witness ==
    /\ last.op = "RenameDataset"
    /\ last.args.source = <<"a", "/", "b">>
    /\ last.reqs[1].method = "PUT"
    /\ last.reqs[1].url = session.BaseURL \o "/restfiles/ds/IBM.A"
    /\ last.reqs[1].body.fields["from-dataset"].dsn = <<"a", "/", "b">>
    /\ last.reqs[1].body.fields["request"] = "rename"
    /\ last.result.ok
-----------------------------------------------------------------------------
(* Claims about the content operations, checked under SpecContent *)

\* ds/{name}, or ds/{name}({member}) when a member is given
C16_Path(q) ==
    "/restfiles/ds/" \o PathEscape(q.DatasetName)
    \o (IF q.MemberName # <<>> THEN "(" \o PathEscape(q.MemberName) \o ")"
        ELSE "")

\* the upload carries the content as it is, as plain text, to the path
C16_UploadVerbatim ==
    last.op = "UploadContent" =>
        /\ Len(last.reqs) = 1
        /\ last.reqs[1].method = "PUT"
        /\ last.reqs[1].url = session.BaseURL \o C16_Path(last.args.request)
        /\ last.reqs[1].body = [kind |-> "text", text |-> last.args.request.Content]
        /\ last.reqs[1].headers["Content-Type"] = "text/plain"

\* the download reads the path the upload of the same names writes
C16_DownloadSamePath ==
    last.op = "DownloadContent" =>
        /\ Len(last.reqs) = 1
        /\ last.reqs[1].method = "GET"
        /\ last.reqs[1].url \in
              { session.BaseURL \o C16_Path(last.args.request),
                session.BaseURL \o C16_Path(last.args.request)
                    \o "?encoding=UTF-8" }

\* a download that follows a successful upload of the same dataset and
\* member returns the uploaded content
C16_DownloadReturnsUpload ==
    (/\ last.op = "UploadContent" /\ last.result.ok
     /\ last'.op = "DownloadContent" /\ calls' = calls + 1
     /\ last'.args.request.DatasetName = last.args.request.DatasetName
     /\ last'.args.request.MemberName = last.args.request.MemberName)
    => last'.result = Ok(last.args.request.Content)

-----------------------------------------------------------------------------
(* Claims about the validators, checked under SpecValidate *)

C12_First == UpperLetters \cup {"@", "#", "$"}
C12_Later == UpperLetters \cup DigitChars \cup {"@", "#", "$", "-", "."}

\* two equal characters c next to each other
C12_Twice(name, c) ==
    \E i \in 1..(Len(name) - 1) : name[i] = c /\ name[i + 1] = c

\* the name breaks a naming rule, for names of at most limit characters
C12_Violates(name, limit) ==
    \/ Len(name) > limit
    \/ ~(Len(name) >= 1 /\ name[1] \in C12_First)
    \/ \E i \in 2..Len(name) : name[i] \notin C12_Later
    \/ C12_Twice(name, ".") \/ C12_Twice(name, "-")
    \/ (Len(name) >= 1 /\ (name[1] = "." \/ name[Len(name)] = "."))

\* C12: ValidateDatasetName returns an error for every name longer than 44
\* characters, or whose first character is not in A-Z @ # $, or with a later
\* character outside A-Z 0-9 @ # $ - ., or with two consecutive periods or
\* hyphens, or starting or ending with a period; and no error for every
\* name that respects all of these rules.
C12_DatasetNameRules ==
    last.op = "ValidateDatasetName" =>
        (last.result.ok <=> ~C12_Violates(last.args.name, 44))

\* a name of exactly 44 characters with periods and single hyphens passed
C12_Witness ==
    /\ last.op = "ValidateDatasetName"
    /\ Len(last.args.name) = 44
    /\ last.args.name[42] = "-" /\ last.args.name[43] = "." 
    /\ last.result.ok

\* C13: ValidateMemberName applies the rules of dataset names with a length
\* limit of 8: it rejects every name that is too long, starts with a
\* character outside A-Z @ # $, has a later character outside
\* A-Z 0-9 @ # $ - ., holds consecutive periods or consecutive hyphens, or
\* starts or ends with a period, and accepts every other non-empty name.
C13_MemberNameRules ==
    (last.op = "ValidateMemberName" /\ last.args.name # <<>>) =>
        (last.result.ok <=> ~C12_Violates(last.args.name, 8))

\* a member name with two consecutive hyphens passed
C13_ConsecutiveHyphensAccepted ==
    /\ last.op = "ValidateMemberName"
    /\ last.args.name = <<"A", "-", "-">>
    /\ last.result.ok


\* a length or count that is not given (zero) or within 1..max
C15_ZeroOrWithin(n, max) == n = 0 \/ (1 <= n /\ n <= max)

\* the request meets every condition of the claim
C15_Acceptable(q) ==
    /\ ~q.isNil
    /\ ~C12_Violates(q.Name, 44)
    /\ q.Type \in {"SEQ", "PO", "PDSE", "VSAM"}
    /\ q.Space.Primary > 0
    /\ q.Space.Secondary >= 0
    /\ q.Space.Unit \in {"TRK", "CYL", "KB", "MB", "GB"}
    /\ q.RecordFormat \in {"", "F", "V", "U"}
    /\ C15_ZeroOrWithin(q.RecordLength, 32760)
    /\ C15_ZeroOrWithin(q.BlockSize, 32760)
    /\ (q.Type \in {"PO", "PDSE"} => C15_ZeroOrWithin(q.Directory, 9999))

\* C15: ValidateCreateDatasetRequest accepts a request if and only if the
\* name is valid, the type is SEQ, PO, PDSE or VSAM, primary space > 0,
\* secondary space >= 0, the unit is TRK, CYL, KB, MB or GB, the record
\* format is empty or F, V or U, record length and block size are zero or
\* within 1..32760, and for partitioned types the directory blocks are zero
\* or within 1..9999; negative lengths, sizes and counts are rejected.
C15_AcceptsIff ==
    last.op = "ValidateCreateDatasetRequest" =>
        (last.result.ok <=> C15_Acceptable(last.args.request))

\* a request with a negative record length passed the validation
C15_NegativeLengthAccepted ==
    /\ last.op = "ValidateCreateDatasetRequest"
    /\ last.args.request.RecordLength = -1
    /\ last.args.request.BlockSize = 0
    /\ last.args.request.Type = "SEQ"
    /\ last.result.ok

-----------------------------------------------------------------------------
(* Claims about the session's headers, checked under SpecHeaders *)

\* the fields of a session other than its header mapping
C18_Fixed(s) ==
    <<s.BaseURL, s.HTTPClient, s.Host, s.Port, s.User, s.Password, s.Profile>>

\* no step changes the session's fields other than the headers, or the profile
C18_Step ==
    /\ C18_Fixed(session') = C18_Fixed(session)
    /\ profile' = profile

\* C18: after a Session is constructed, any sequence of AddHeader and
\* RemoveHeader calls leaves its BaseURL, its HTTP client, its host, port,
\* user and password and the referenced Profile unchanged; only the header
\* mapping changes, and no Session or manager operation writes to the Profile.
C18_HeadersOnly ==
    /\ [](C18_Fixed(session) = C18_Fixed(NewSession(profile)))
    /\ [][C18_Step]_vars

\* an operation ran on the insecure profile's session after Accept was
\* removed and a custom header added: the client still skips verification
C18_Witness ==
    /\ last.op = "GetJob"
    /\ "Accept" \notin DOMAIN session.Headers
    /\ "X-Custom-Header" \in DOMAIN session.Headers
    /\ session.BaseURL = "http://localhost:8080"
    /\ session.HTTPClient.InsecureSkipVerify
    /\ ~profile.RejectUnauthorized

\* the header keys an operation sets itself on its i-th request
C19_OwnKeys(op, i) ==
    CASE op \in {"ListDatasets", "GetDataset"} ->
            {"X-Ibm-Max-Items", "X-Ibm-Attributes"}
      [] op = "GetDatasetInfo" ->
            IF i = 1 THEN {"Accept"} ELSE {"X-Ibm-Max-Items", "X-Ibm-Attributes"}
      [] op \in {"CreateDataset", "UploadContent", "CopyDataset", "RenameDataset"} ->
            {"Content-Type"}
      [] OTHER -> {}

\* a header name as HTTP reads it, whatever the case it is spelled in
C19_Name(k) == IF k = "content-type" THEN "Content-Type" ELSE k

\* the request carries exactly the pairs of the mapping, but for the keys
\* the operation sets itself
C19_Carries(req, h, own) ==
    /\ DOMAIN req.headers \ own = {C19_Name(k) : k \in DOMAIN h} \ own
    /\ \A k \in DOMAIN h : C19_Name(k) \notin own => req.headers[C19_Name(k)] = h[k]
    /\ own \subseteq DOMAIN req.headers

\* the mapping after the last header call, and the requests of the last
\* operation
C19_State ==
    /\ NewSession(profile).Headers =
           [k \in {"Content-Type", "Accept"} |-> "application/json"]
    /\ last.op = "AddHeader" =>
           /\ last.args.key \in DOMAIN session.Headers
           /\ session.Headers[last.args.key] = last.args.value
    /\ last.op = "RemoveHeader" => last.args.key \notin DOMAIN session.Headers
    /\ last.op \notin {"none", "AddHeader", "RemoveHeader"} =>
           /\ last.reqs # <<>>
           /\ \A i \in 1..Len(last.reqs) :
                 C19_Carries(last.reqs[i], session.Headers, C19_OwnKeys(last.op, i))

\* a header call leaves every other key as it was, any other step leaves
\* the whole mapping as it was
C19_Step ==
    LET touched == IF last'.op \in {"AddHeader", "RemoveHeader"}
                   THEN {last'.args.key} ELSE {}
    IN  /\ DOMAIN session'.Headers \ touched = DOMAIN session.Headers \ touched
        /\ \A k \in DOMAIN session.Headers \ touched :
              session'.Headers[k] = session.Headers[k]

\* C19: a new Session's header mapping is exactly Content-Type and Accept
\* application/json; after any sequence of AddHeader and RemoveHeader calls
\* the mapping is the result of applying them in order (the last value of a
\* key wins, a removed key is absent), and every request issued afterwards
\* by a manager bound to the Session carries exactly the pairs then in the
\* mapping, except for the keys the operation sets itself.
C19_HeadersReachRequests ==
    /\ []C19_State
    /\ [][C19_Step]_vars

\* GetJobStatus sent Content-Type application/json although the mapping
\* also holds content-type with the value added last
C19_AddedHeaderNotSent ==
    /\ last.op = "GetJobStatus"
    /\ "content-type" \in DOMAIN session.Headers
    /\ session.Headers["content-type"] = "custom-value"
    /\ session.Headers["Content-Type"] = "application/json"
    /\ DOMAIN last.reqs[1].headers = {"Content-Type", "Accept"}
    /\ last.reqs[1].headers["Content-Type"] = "application/json"


-----------------------------------------------------------------------------
(* Claims about certificate validation, checked under SpecProfiles *)

\* the profile data the last GetZOSMFProfile or CreateSession read holds no
\* boolean under rejectUnauthorized
C20_NoBoolean(name) ==
    LET data == config.profiles["zosmf"][name]
    IN  \/ "rejectUnauthorized" \notin DOMAIN data.fields
        \/ data.fields["rejectUnauthorized"].kind # "bool"

\* the profile a successful call of the last operation produced
C20_Produced ==
    IF last.op \in {"GetZOSMFProfile", "CreateZOSMFProfile"}
    THEN last.result.value ELSE last.result.value.Profile

\* C20: certificate validation is secure by default and controlled only by
\* rejectUnauthorized: a Session's client skips certificate verification if
\* and only if its profile's rejectUnauthorized is false, and a profile
\* obtained from the store with rejectUnauthorized absent or not a boolean,
\* from CreateZOSMFProfile or from CreateSessionDirect always has
\* rejectUnauthorized = true.
C20_SecureByDefault ==
    /\ session.made =>
          (session.HTTPClient.InsecureSkipVerify
              <=> ~session.Profile.RejectUnauthorized)
    /\ /\ last.op \in {"GetZOSMFProfile", "CreateSession"}
       /\ last.result.ok
       /\ C20_NoBoolean(IF last.op = "GetZOSMFProfile" THEN last.args.name
                        ELSE last.args.profileName)
       => C20_Produced.RejectUnauthorized
    /\ last.op \in {"CreateZOSMFProfile", "CreateSessionDirect"}
          => C20_Produced.RejectUnauthorized

\* GetZOSMFProfile returned, without an error, a profile that switches
\* verification off, from a file that holds null under the profile's name
C20_InsecureFromStore ==
    /\ last.op = "GetZOSMFProfile"
    /\ last.args.name = "p"
    /\ config.exists /\ config.parses
    /\ "zosmf" \in DOMAIN config.profiles
    /\ config.profiles["zosmf"]["p"].kind = "null"
    /\ last.result.ok
    /\ ~last.result.value.RejectUnauthorized

-----------------------------------------------------------------------------
(* Claims about the profile invariant, checked under SpecProfiles *)

\* host, user and password are non-empty and port > 0
C21_Invariant(p) ==
    /\ p.Host # ""
    /\ p.User # <<>>
    /\ p.Password # ""
    /\ p.Port > 0

\* C21: every Profile from which a Session is derived (by NewSession, by
\* CreateSession from the store or by CreateSessionDirect) has a non-empty
\* host, user and password and a port > 0, and ValidateProfile returns an
\* error exactly when one of these four conditions is violated.
C21_ProfileInvariant ==
    /\ session.made => C21_Invariant(session.Profile)
    /\ last.op = "ValidateProfile" =>
          (last.result.ok <=> C21_Invariant(last.args.profile))

\* CreateSession returned, without an error, a session on a profile whose
\* stored data names no host and no port
C21_SessionOnInvalidProfile ==
    /\ last.op = "CreateSession"
    /\ last.result.ok
    /\ session = last.result.value
    /\ session.Profile.Host = ""
    /\ session.Profile.Port = 0
    /\ session.BaseURL = "https://"


-----------------------------------------------------------------------------
(* Claims about the profile manager, checked under SpecConfig *)

\* the error of a missing configuration file
C22_ConfigNotFound(err) ==
    /\ err.msg = "zowe config file not found at %s"
    /\ err.wraps = <<"failed to load config">>

\* the error of a file that holds no profile of this name
C22_ProfileNotFound(err, name) ==
    /\ err.wraps = <<>>
    /\ err.msg \in {"no zosmf profiles found in configuration",
                    "zosmf profile '" \o name \o "' not found"}

\* C22: GetZOSMFProfile and ListZOSMFProfiles report a missing store file
\* with an error (config not found) that differs from the error returned
\* when the file exists but does not hold the requested profile (profile not
\* found); neither case returns a profile, and the two errors can be told
\* apart.
C22_NotFoundKinds ==
    /\ /\ last.op \in {"GetZOSMFProfile", "ListZOSMFProfiles"}
       /\ ~config.exists
       => /\ ~last.result.ok
          /\ C22_ConfigNotFound(last.result.err)
          /\ \A n \in ProfileNames : ~C22_ProfileNotFound(last.result.err, n)
    /\ /\ last.op = "GetZOSMFProfile"
       /\ config.exists /\ config.parses
       /\ \/ "zosmf" \notin DOMAIN config.profiles
          \/ last.args.name \notin DOMAIN config.profiles["zosmf"]
       => /\ ~last.result.ok
          /\ C22_ProfileNotFound(last.result.err, last.args.name)
          /\ ~C22_ConfigNotFound(last.result.err)

\* GetZOSMFProfile found no p in a file that holds q
C22_Witness ==
    /\ last.op = "GetZOSMFProfile"
    /\ last.args.name = "p"
    /\ config.exists /\ config.parses
    /\ "zosmf" \in DOMAIN config.profiles
    /\ DOMAIN config.profiles["zosmf"] = {"q"}
    /\ ~last.result.ok
    /\ last.result.err.msg = "zosmf profile 'p' not found"


\* the profiles of a category, none when the document has no such category
C23_Category(cfg, c) ==
    IF c \in DOMAIN cfg.profiles THEN cfg.profiles[c] ELSE <<>>

\* the document differs from the one before at most in zosmf[name]
C23_OnlyEntry(before, after, name) ==
    /\ DOMAIN after.profiles = DOMAIN before.profiles \cup {"zosmf"}
    /\ \A c \in DOMAIN before.profiles \ {"zosmf"} :
          after.profiles[c] = before.profiles[c]
    /\ DOMAIN after.profiles["zosmf"] \ {name} =
          DOMAIN C23_Category(before, "zosmf") \ {name}
    /\ \A n \in DOMAIN after.profiles["zosmf"] \ {name} :
          after.profiles["zosmf"][n] = before.profiles["zosmf"][n]
    /\ after.default = before.default

\* a step of SaveZOSMFProfile leaves a file, and of a document that was
\* there it changes only the entry of the saved profile
C23_SaveStep ==
    last'.op = "SaveZOSMFProfile" =>
        /\ last'.result.ok
        /\ config'.exists /\ config'.parses
        /\ last'.args.profile.Name \in DOMAIN config'.profiles["zosmf"]
        /\ config.exists /\ config.parses =>
              /\ C23_OnlyEntry(config, config', last'.args.profile.Name)
              /\ config'.other = config.other

\* C23: SaveZOSMFProfile(p) creates the store file when it is absent, and
\* for every existing store document it changes only the entry
\* zosmf[p.Name]: every other zosmf profile, every other profile category,
\* the default mapping and any other content of the document are the same
\* after the save as before it.
C23_SaveChangesOneEntry == [][C23_SaveStep]_vars

\* SaveZOSMFProfile wrote a document that started with another category and
\* a $schema key: the category is there, the key is not
C23_OtherContentDropped ==
    /\ last.op = "SaveZOSMFProfile"
    /\ last.result.ok
    /\ "tso" \in DOMAIN config.profiles
    /\ config.other = {}


\* the file holds a zosmf profile of this name
C24_Holds(cfg, name) ==
    /\ cfg.exists /\ cfg.parses
    /\ "zosmf" \in DOMAIN cfg.profiles
    /\ name \in DOMAIN cfg.profiles["zosmf"]

\* an error that says the file or the profile was not found
C24_NotFound(err, name) ==
    \/ C22_ConfigNotFound(err)
    \/ /\ err.wraps = <<>>
       /\ err.msg \in {"no zosmf profiles found",
                       "zosmf profile '" \o name \o "' not found"}

\* a step of DeleteZOSMFProfile: on an absent profile an error and the same
\* file, else the file without that profile and nothing else changed
C24_DeleteStep ==
    last'.op = "DeleteZOSMFProfile" =>
        LET name == last'.args.name IN
        IF C24_Holds(config, name)
        THEN /\ last'.result.ok
             /\ DOMAIN config'.profiles = DOMAIN config.profiles
             /\ DOMAIN config'.profiles["zosmf"] =
                   DOMAIN config.profiles["zosmf"] \ {name}
             /\ \A n \in DOMAIN config'.profiles["zosmf"] :
                   config'.profiles["zosmf"][n] = config.profiles["zosmf"][n]
             /\ \A c \in DOMAIN config.profiles \ {"zosmf"} :
                   config'.profiles[c] = config.profiles[c]
             /\ config'.default = config.default
             /\ ~GetZOSMFProfile(config', name).ok
             /\ C22_ProfileNotFound(GetZOSMFProfile(config', name).err, name)
        ELSE /\ ~last'.result.ok
             /\ config' = config
             /\ (~config.exists \/ config.parses) =>
                   C24_NotFound(last'.result.err, name)

\* C24: DeleteZOSMFProfile(name) returns a not-found error and leaves the
\* store unchanged when the named profile is absent; otherwise it removes
\* exactly that profile, leaving every other profile, category and the
\* default mapping unchanged, and a following GetZOSMFProfile(name) fails
\* with profile-not-found.
C24_DeleteRemovesOne == [][C24_DeleteStep]_vars

\* q was deleted from a file that held p and q: p, the tso category and the
\* default mapping are still there
C24_Witness ==
    /\ last.op = "DeleteZOSMFProfile"
    /\ last.args.name = "q"
    /\ last.result.ok
    /\ DOMAIN config.profiles = {"zosmf", "tso"}
    /\ DOMAIN config.profiles["zosmf"] = {"p"}
    /\ config.default = [zosmf |-> "q", tso |-> "t"]


\* two results of GetZOSMFProfile are the same result
C25_Same(a, b) ==
    /\ a.ok = b.ok
    /\ a.ok => a.value = b.value
    /\ ~a.ok => a.err = b.err

\* what GetDefaultZOSMFProfile returned on the file as it is
C25_State ==
    /\ config.exists /\ config.parses
    /\ last.op = "GetDefaultZOSMFProfile"
    => IF "zosmf" \in DOMAIN config.default
       THEN C25_Same(last.result,
                     GetZOSMFProfile(config, config.default["zosmf"]))
       ELSE /\ ~last.result.ok
            /\ last.result.err.msg = "no default zosmf profile set"

\* a save or a delete on a document leaves its default mapping, and after
\* the default profile is deleted GetDefaultZOSMFProfile finds no profile
C25_Step ==
    /\ config.exists /\ config.parses
    /\ last'.op \in {"SaveZOSMFProfile", "DeleteZOSMFProfile"}
    => /\ config'.default = config.default
       /\ /\ last'.op = "DeleteZOSMFProfile"
          /\ last'.result.ok
          /\ "zosmf" \in DOMAIN config.default
          /\ config.default["zosmf"] = last'.args.name
          => /\ ~GetDefaultZOSMFProfile(config').ok
             /\ C22_ProfileNotFound(GetDefaultZOSMFProfile(config').err,
                                    last'.args.name)

\* C25: GetDefaultZOSMFProfile returns exactly what GetZOSMFProfile(d)
\* returns, where d is the name recorded under default["zosmf"], and an
\* error when no default is recorded; SaveZOSMFProfile and
\* DeleteZOSMFProfile never change the default mapping, so after the default
\* profile is deleted GetDefaultZOSMFProfile fails with profile-not-found
\* rather than returning another or a stale profile.
C25_DefaultProfile ==
    /\ []C25_State
    /\ [][C25_Step]_vars

\* the default profile q was deleted while p is still there, and
\* GetDefaultZOSMFProfile did not find it
C25_Witness ==
    /\ last.op = "GetDefaultZOSMFProfile"
    /\ config.exists /\ config.parses
    /\ "zosmf" \in DOMAIN config.default
    /\ config.default["zosmf"] = "q"
    /\ DOMAIN config.profiles["zosmf"] = {"p"}
    /\ ~last.result.ok
    /\ last.result.err.msg = "zosmf profile 'q' not found"


-----------------------------------------------------------------------------
(* Claims about the profile store as a map, checked under SpecStore *)

\* the attributes of a profile the store keeps
C30_Attributes(p) ==
    <<p.Name, p.Host, p.Port, p.User, p.Password, p.RejectUnauthorized,
      p.BasePath>>

\* the lookup of a name gives the same in two files: the same attributes,
\* or a failure in both
C30_SameLookup(before, after, n) ==
    LET a == GetZOSMFProfile(before, n)
        b == GetZOSMFProfile(after, n)
    IN  /\ a.ok = b.ok
        /\ a.ok => C30_Attributes(a.value) = C30_Attributes(b.value)

\* the lookup of a name fails with a not-found error
C30_NotFound(cfg, n) ==
    LET got == GetZOSMFProfile(cfg, n)
    IN  /\ ~got.ok
        /\ \/ C22_ConfigNotFound(got.err)
           \/ C22_ProfileNotFound(got.err, n)

\* the map after a step: a save binds the name to the saved attributes, a
\* delete that succeeds unbinds the name, and every other name is as before
C30_Step ==
    LET bound == IF last'.op = "SaveZOSMFProfile"
                 THEN {last'.args.profile.Name} ELSE {}
        unbound == IF last'.op = "DeleteZOSMFProfile" /\ last'.result.ok
                   THEN {last'.args.name} ELSE {}
    IN  /\ \A n \in bound :
              /\ GetZOSMFProfile(config', n).ok
              /\ C30_Attributes(GetZOSMFProfile(config', n).value) =
                     C30_Attributes(last'.args.profile)
        /\ \A n \in unbound : C30_NotFound(config', n)
        /\ \A n \in ProfileNames \ (bound \cup unbound) :
              C30_SameLookup(config, config', n)

\* the names GetZOSMFProfile succeeds for
C30_Bound == {n \in ProfileNames : GetZOSMFProfile(config, n).ok}

\* what the last GetZOSMFProfile or ListZOSMFProfiles returned is the map:
\* no name is bound without a file, a lookup returns the binding or a
\* not-found error, and the list holds the bound names, each once
C30_State ==
    /\ ~config.exists => C30_Bound = {}
    /\ last.op = "GetZOSMFProfile" =>
          /\ C25_Same(last.result, GetZOSMFProfile(config, last.args.name))
          /\ ~last.result.ok => C30_NotFound(config, last.args.name)
    /\ last.op = "ListZOSMFProfiles" =>
          IF config.exists
          THEN /\ last.result.ok
               /\ {last.result.value[i] : i \in DOMAIN last.result.value} =
                      C30_Bound
               /\ Len(last.result.value) = Cardinality(C30_Bound)
          ELSE /\ ~last.result.ok
               /\ C22_ConfigNotFound(last.result.err)

\* C30: the profile store behaves as a map from name to attributes under any
\* sequence of SaveZOSMFProfile and DeleteZOSMFProfile calls starting from a
\* missing file: GetZOSMFProfile(n) returns the name, host, port, user,
\* password, rejectUnauthorized and basePath of the most recent save of n
\* that no later delete removed, and fails with not-found otherwise;
\* ListZOSMFProfiles returns exactly the names for which GetZOSMFProfile
\* succeeds.
C30_StoreIsMap ==
    /\ []C30_State
    /\ [][C30_Step]_vars

\* ListZOSMFProfiles returned p alone from a file written by the manager:
\* the lookup of p returns the profile saved for localhost, that of q fails
C30_Witness ==
    /\ last.op = "ListZOSMFProfiles"
    /\ last.result.ok
    /\ last.result.value = <<"p">>
    /\ GetZOSMFProfile(config, "p").ok
    /\ GetZOSMFProfile(config, "p").value.Host = "localhost"
    /\ GetZOSMFProfile(config, "p").value.Port = 8080
    /\ ~GetZOSMFProfile(config, "q").ok


-----------------------------------------------------------------------------
(* Claims about closing a manager, checked under SpecClose *)

C26_Closes == {"CloseJobManager", "CloseDatasetManager"}

\* the session as it is when no manager was ever closed: the one NewSession
\* made, with the headers added and removed since
C26_NeverClosed == [NewSession(profile) EXCEPT !.Headers = session.Headers]

\* a close returns no error, drops the idle connections and leaves the
\* session as it is when no manager was closed
C26_State ==
    /\ session = C26_NeverClosed
    /\ last.op \in C26_Closes => last.result.ok /\ idle = 0
    /\ last.op = "GetJobStatus" =>
          \E s \in Ranged(C26_NeverClosed) :
              LET out == GetJobStatus(s, last.args.id, Reply(200, JobBody))
              IN  last.reqs = out.reqs /\ last.result = out.result
    /\ last.op = "DownloadContent" =>
          \E s \in Ranged(C26_NeverClosed) :
              LET out == DownloadContent(s, last.args.request,
                                         Reply(200, TextBody("hello")))
              IN  last.reqs = out.reqs /\ last.result = out.result

\* a close changes nothing in the session, and a call that follows a close,
\* another close or an operation of either manager, does what it does on a
\* session with idle connections: a close returns no error, an operation
\* sends its requests and succeeds
C26_Step ==
    /\ last'.op \in C26_Closes => session' = session /\ profile' = profile
    /\ last.op \in C26_Closes /\ last'.op \in C26_Closes => last'.result.ok
    /\ /\ last.op \in C26_Closes
       /\ last'.op \notin C26_Closes \cup {"AddHeader", "RemoveHeader"}
       => /\ idle = 0
          /\ last'.reqs # <<>>
          /\ last'.result.ok
          /\ idle' = 1

\* C26: CloseJobManager and CloseDatasetManager may be called any number of
\* times, each call returning no error, and they change nothing in the
\* Session (BaseURL, headers, profile, client identity): every operation
\* issued through the same Session, by the closed manager or by any other
\* manager sharing it, after any number of closes behaves as it would
\* without them.
C26_CloseIsHarmless ==
    /\ []C26_State
    /\ [][C26_Step]_vars

\* CloseDatasetManager returned after requests went through the session,
\* whose custom header is still there
C26_Witness ==
    /\ last.op = "CloseDatasetManager"
    /\ last.result.ok
    /\ calls = 1
    /\ idle = 0
    /\ "X-Custom-Header" \in DOMAIN session.Headers
    /\ session.BaseURL = BuildBaseURL(profile)


-----------------------------------------------------------------------------
(* Claims about GetJobOutput, checked under SpecOutput *)

\* the spool files the first response of the last GetJobOutput listed
C27_Listed == GetSpoolFiles(session, last.args.correlator, last.resps[1]).result

\* the content of the i-th listed file as the last GetJobOutput got it
C27_Content(i) ==
    GetSpoolFileContent(session, last.args.correlator, C27_Listed.value[i].ID,
                        last.resps[i + 1]).result

\* C27: GetJobOutput forwards failures rather than swallowing them: if
\* GetSpoolFiles fails, or if retrieving the content of any one of the job's
\* spool files fails, GetJobOutput returns an error wrapping that cause and
\* never a successful result that silently omits the failed file.
C27_FailuresForwarded ==
    last.op = "GetJobOutput" =>
        /\ ~C27_Listed.ok =>
              /\ ~last.result.ok
              /\ last.result.err =
                     Wrap("failed to get spool files", C27_Listed.err)
        /\ C27_Listed.ok =>
              \A i \in 1..Len(C27_Listed.value) :
                  ~C27_Content(i).ok =>
                      /\ ~last.result.ok
                      /\ last.result.err.msg = C27_Content(i).err.msg

\* GetJobOutput returned an output map without an error although the
\* content request of the second of two spool files was answered with 500:
\* the map holds the first file only
C27_FailedFileOmitted ==
    /\ last.op = "GetJobOutput"
    /\ Len(last.reqs) = 3
    /\ last.resps[2] = Reply(200, TextBody("HELLO"))
    /\ last.resps[3] = Reply(500, ErrorText)
    /\ last.result.ok
    /\ DOMAIN last.result.value = {"DD1"}


-----------------------------------------------------------------------------
(* Claims about GetDatasetInfo, checked under Spec *)

\* the direct call succeeds on this response: status 200 and a body that
\* decodes
C28_DirectSucceeds(r) == ~r.err /\ r.status = 200 /\ DecodeObject(r).ok

\* two results of a dataset lookup are the same result
C28_Same(a, b) ==
    /\ a.ok = b.ok
    /\ a.ok => a.value = b.value
    /\ ~a.ok => a.err = b.err

\* C28: GetDatasetInfo tries the direct endpoint first and the list-based
\* lookup second: when the direct call succeeds (status 200 with a decodable
\* body) its result is returned and no list request is made; on any failure
\* of the direct call (transport error, 404, other status, undecodable body)
\* the result is exactly what GetDataset(name) returns, so the direct call's
\* own error is never the one returned.
C28_DirectThenList ==
    last.op = "GetDatasetInfo" =>
        LET name == last.args.name
            direct == getDatasetInfoDirect(session, name, last.resps[1])
        IN  /\ Len(last.reqs) >= 1
            /\ last.reqs[1].method = direct.reqs[1].method
            /\ last.reqs[1].url = direct.reqs[1].url
            /\ direct.result.ok <=> C28_DirectSucceeds(last.resps[1])
            /\ C28_DirectSucceeds(last.resps[1]) =>
                  /\ Len(last.reqs) = 1
                  /\ last.result.ok
                  /\ last.result.value = direct.result.value
            /\ ~C28_DirectSucceeds(last.resps[1]) =>
                  /\ Len(last.reqs) = 2
                  /\ LET listed == GetDataset(session, name, last.resps[2])
                     IN  /\ last.reqs[2].method = listed.reqs[1].method
                         /\ last.reqs[2].url = listed.reqs[1].url
                         /\ C28_Same(last.result, listed.result)

\* the direct request of GetDatasetInfo met a transport error, the listing
\* was asked next and its dataset returned
C28_Witness ==
    /\ last.op = "GetDatasetInfo"
    /\ last.resps[1] = TransportFailure
    /\ Len(last.reqs) = 2
    /\ last.reqs[2].url # last.reqs[1].url
    /\ last.result.ok
    /\ last.result.value = Dataset1

\* the direct request of GetDatasetInfo was answered 200 with a dataset:
\* one request, no listing
C28_DirectWitness ==
    /\ last.op = "GetDatasetInfo"
    /\ last.resps = <<Reply(200, DatasetBody)>>
    /\ Len(last.reqs) = 1
    /\ last.result.ok


-----------------------------------------------------------------------------
(* Claims about the end of WaitForJobCompletion, checked under SpecWaitFair *)

\* the status polls the wait has made
C29_Polls == {i \in DOMAIN wait.trace : wait.trace[i].ev = "poll"}

\* the last thing the wait did
C29_LastEvent == wait.trace[Len(wait.trace)]

\* the wait ended with a complete status: the one its last poll returned
C29_EndedComplete ==
    /\ wait.result.ok
    /\ C29_LastEvent.ev = "poll" /\ C29_LastEvent.ok
    /\ isJobComplete(C29_LastEvent.status)
    /\ wait.result.value = C29_LastEvent.status

\* the wait ended with the error of its last poll
C29_EndedPollError ==
    /\ ~wait.result.ok
    /\ C29_LastEvent.ev = "poll" /\ ~C29_LastEvent.ok
    /\ wait.result.err = FailedToGetJobStatus(C29_LastEvent.err)

\* the wait ended with the timeout error: its last check found the timeout
\* passed
C29_EndedTimeout ==
    /\ ~wait.result.ok
    /\ C29_LastEvent.ev = "check"
    /\ C29_LastEvent.elapsed > wait.timeout
    /\ wait.result.err = TimeoutError

\* a poll that was followed by another step returned a status that is not
\* complete
C29_PollsBeforeLastIncomplete ==
    \A i \in C29_Polls :
        i < Len(wait.trace) =>
            wait.trace[i].ok /\ ~isJobComplete(wait.trace[i].status)

\* what holds of a wait in every state
C29_Safety ==
    /\ pc = "done" =>
          /\ C29_EndedComplete \/ C29_EndedPollError \/ C29_EndedTimeout
          /\ ~(C29_EndedComplete /\ C29_EndedPollError)
          /\ ~(C29_EndedComplete /\ C29_EndedTimeout)
          /\ ~(C29_EndedPollError /\ C29_EndedTimeout)
          /\ C29_PollsBeforeLastIncomplete
             /\ (\A i \in C29_Polls :
                    wait.trace[i].ok /\ ~isJobComplete(wait.trace[i].status))
                => C29_EndedTimeout
    /\ pc \in {"check", "poll", "sleep"} => C29_PollsBeforeLastIncomplete
    /\ \A i \in DOMAIN wait.trace :
          wait.trace[i].ev = "check" /\ i + 3 <= Len(wait.trace) =>
              /\ wait.trace[i + 3].ev = "check"
              /\ wait.trace[i + 3].elapsed
                     >= wait.trace[i].elapsed + wait.pollInterval
    /\ wait.pollInterval > 0 =>
          Cardinality(C29_Polls) <= (wait.timeout \div wait.pollInterval) + 1

\* the clock and the polls of the model cover the whole of the wait
C29_Covered ==
    /\ wait.startTime + wait.timeout + wait.pollInterval + 2 <= MaxTime
    /\ (wait.timeout \div wait.pollInterval) + 1 <= MaxPolls

\* C29: WaitForJobCompletion terminates whenever every status poll returns
\* and pollInterval > 0: each iteration advances elapsed time by at least
\* pollInterval, so the wait ends with exactly one of a complete status, a
\* poll error or the timeout error, after at most
\* floor(timeout/pollInterval) + 1 polls; for a job that never reaches a
\* complete status it ends with the timeout error, and nothing other than
\* the timeout bounds the number of polls.
C29_WaitTerminates ==
    /\ []C29_Safety
    /\ (pc = "check" /\ wait.pollInterval > 0 /\ C29_Covered) ~> (pc = "done")

\* a wait with a positive poll interval on a job that stayed active made
\* floor(timeout/pollInterval) + 1 polls and ended with the timeout error
C29_Witness ==
    /\ pc = "done"
    /\ wait.pollInterval > 0 /\ wait.timeout > 0
    /\ Cardinality(C29_Polls) = (wait.timeout \div wait.pollInterval) + 1
    /\ \A i \in C29_Polls : wait.trace[i].ok /\ wait.trace[i].status = ACTIVE
    /\ C29_EndedTimeout

\* with a poll interval of zero and polls that take no time the wait has
\* made every poll the model allows and the timeout has not passed
C29_UnboundedPolls ==
    /\ pc = "poll"
    /\ wait.pollInterval = 0 /\ wait.timeout = 0
    /\ Cardinality(C29_Polls) = MaxPolls

====
